---- MODULE Spec2Model ----
(***************************************************************************)
(* A model of the knowledge-graph system: the graph store                  *)
(* (knowledge_graph.py), the extraction pipeline (document_processor.py)   *)
(* and the query engine (query_engine.py).                                 *)
(*                                                                         *)
(* Python strings whose characters the code inspects (document text,       *)
(* entity names, questions, string-valued properties) are sequences of     *)
(* one-character strings, so that substring tests, regular-expression      *)
(* scans, lower(), strip(), split() and capitalize() are computed          *)
(* character by character.  Strings the code only compares for equality    *)
(* (entity and relationship types, dictionary keys, path names) are TLA+   *)
(* strings.                                                                *)
(***************************************************************************)
EXTENDS Integers, Sequences, FiniteSets, TLC

VARIABLES
    entities,        \* KnowledgeGraph.entities
    relationships,   \* KnowledgeGraph.relationships
    text_chunks,     \* KnowledgeGraph.text_chunks
    entity_map,      \* KnowledgeGraph.entity_map
    files,           \* the JSON files on disk: path -> parsed content
    sample_dir,      \* the sample directory: Missing, or file name -> text
    result           \* what the last call returned (or that it raised)

vars == <<entities, relationships, text_chunks, entity_map, files, sample_dir, result>>

(***************************************************************************)
(* Characters and the str methods the code uses.                           *)
(***************************************************************************)

\* The characters str.strip() and str.split() treat as whitespace, and \s.
Whitespace == {" ", "\t", "\n", "\r"}

\* The characters \d and [0-9] match.
Digits == {"0", "1", "2", "3", "4", "5", "6", "7", "8", "9"}

DigitValue ==
    ("0" :> 0) @@ ("1" :> 1) @@ ("2" :> 2) @@ ("3" :> 3) @@ ("4" :> 4) @@
    ("5" :> 5) @@ ("6" :> 6) @@ ("7" :> 7) @@ ("8" :> 8) @@ ("9" :> 9)

LowerOf ==
    ("A" :> "a") @@ ("B" :> "b") @@ ("C" :> "c") @@ ("D" :> "d") @@ ("E" :> "e") @@
    ("F" :> "f") @@ ("G" :> "g") @@ ("H" :> "h") @@ ("I" :> "i") @@ ("J" :> "j") @@
    ("K" :> "k") @@ ("L" :> "l") @@ ("M" :> "m") @@ ("N" :> "n") @@ ("O" :> "o") @@
    ("P" :> "p") @@ ("Q" :> "q") @@ ("R" :> "r") @@ ("S" :> "s") @@ ("T" :> "t") @@
    ("U" :> "u") @@ ("V" :> "v") @@ ("W" :> "w") @@ ("X" :> "x") @@ ("Y" :> "y") @@
    ("Z" :> "z")

UpperOf ==
    ("a" :> "A") @@ ("b" :> "B") @@ ("c" :> "C") @@ ("d" :> "D") @@ ("e" :> "E") @@
    ("f" :> "F") @@ ("g" :> "G") @@ ("h" :> "H") @@ ("i" :> "I") @@ ("j" :> "J") @@
    ("k" :> "K") @@ ("l" :> "L") @@ ("m" :> "M") @@ ("n" :> "N") @@ ("o" :> "O") @@
    ("p" :> "P") @@ ("q" :> "Q") @@ ("r" :> "R") @@ ("s" :> "S") @@ ("t" :> "T") @@
    ("u" :> "U") @@ ("v" :> "V") @@ ("w" :> "W") @@ ("x" :> "X") @@ ("y" :> "Y") @@
    ("z" :> "Z")

LowerChar(c) == IF c \in DOMAIN LowerOf THEN LowerOf[c] ELSE c

UpperChar(c) == IF c \in DOMAIN UpperOf THEN UpperOf[c] ELSE c

\* str.lower()
lower(s) == [i \in 1..Len(s) |-> LowerChar(s[i])]

\* str.capitalize(): the first character upper-cased, every other lower-cased.
capitalize(s) == [i \in 1..Len(s) |-> IF i = 1 THEN UpperChar(s[i]) ELSE LowerChar(s[i])]

\* p occurs in s starting at position i.
MatchAt(s, i, p) ==
    /\ i >= 1
    /\ i + Len(p) - 1 <= Len(s)
    /\ \A j \in 1..Len(p) : s[i + j - 1] = p[j]

\* Python's `p in s` for strings.
Contains(s, p) == \E i \in 1..(Len(s) - Len(p) + 1) : MatchAt(s, i, p)

\* s[i:] for a 1-based i (the empty string when i is past the end).
From(s, i) == IF i > Len(s) THEN << >> ELSE SubSeq(s, i, Len(s))

\* The least element of a non-empty set of positions.
Least(ps) == CHOOSE j \in ps : \A k \in ps : j <= k

\* The least position >= i whose character is not in set cs (Len(s) + 1 if none).
SkipWhile(s, i, cs) ==
    IF \A j \in i..Len(s) : s[j] \in cs
        THEN (IF i > Len(s) THEN i ELSE Len(s) + 1)
    ELSE Least({j \in i..Len(s) : s[j] \notin cs})

\* The greatest position <= i whose character is not in set cs (0 if none).
SkipBack(s, i, cs) ==
    IF \A j \in 1..i : s[j] \in cs THEN 0
    ELSE CHOOSE j \in 1..i : s[j] \notin cs /\ \A k \in (j + 1)..i : s[k] \in cs

\* str.strip()
strip(s) ==
    LET a == SkipWhile(s, 1, Whitespace)
        b == SkipBack(s, Len(s), Whitespace)
    IN  IF a > b THEN << >> ELSE SubSeq(s, a, b)

\* The least position >= i holding character c (Len(s) + 1 if none).
FindChar(s, i, c) == SkipWhile(s, i, {x \in {s[j] : j \in 1..Len(s)} : x # c})

\* str.split(sep) for a one-character separator: the pieces between separators,
\* empty pieces kept.
RECURSIVE split_sep(_, _)
split_sep(s, sep) ==
    LET k == FindChar(s, 1, sep)
    IN  IF k > Len(s) THEN <<s>>
        ELSE <<SubSeq(s, 1, k - 1)>> \o split_sep(From(s, k + 1), sep)

\* str.split(): the maximal runs of non-whitespace characters.
RECURSIVE split(_)
split(s) ==
    LET a == SkipWhile(s, 1, Whitespace)
    IN  IF a > Len(s) THEN << >>
        ELSE LET b == SkipWhile(s, a, {c \in {s[i] : i \in a..Len(s)} : c \notin Whitespace})
             IN  <<SubSeq(s, a, b - 1)>> \o split(From(s, b))

\* int(s) for a string of decimal digits; the caller checks that s is not empty.
RECURSIVE int(_)
int(s) ==
    IF Len(s) = 0 THEN 0
    ELSE 10 * int(SubSeq(s, 1, Len(s) - 1)) + DigitValue[s[Len(s)]]

\* str.replace(c, '') for a one-character c.
remove_char(s, c) == SelectSeq(s, LAMBDA x : x # c)

\* "\n".join(...) and the other concatenations of f-strings.
RECURSIVE join(_, _)
join(sep, parts) ==
    IF Len(parts) = 0 THEN << >>
    ELSE IF Len(parts) = 1 THEN parts[1]
    ELSE parts[1] \o sep \o join(sep, Tail(parts))

\* The greatest common divisor, for fractions in lowest terms.
RECURSIVE gcd(_, _)
gcd(a, b) == IF b = 0 THEN a ELSE gcd(b, a % b)

(***************************************************************************)
(* The graph store (knowledge_graph.py).                                   *)
(*                                                                         *)
(* A dictionary is a function from its keys; a property value is tagged    *)
(* with its Python type: [str |-> s] or [int |-> n].  A confidence is in   *)
(* hundredths (0.95 is 95); a similarity, the float matches/len(keywords), *)
(* is the reduced fraction <<numerator, denominator>> (0.0 is <<0, 1>>),   *)
(* so two similarities are equal exactly when the floats are.              *)
(***************************************************************************)

StrVal(s) == [str |-> s]

IntVal(n) == [int |-> n]

\* {} : the empty dictionary.
EmptyDict == [k \in {} |-> 0]

\* The argument None.
None == [none |-> TRUE]

\* Python's `x or {}` for x a dictionary or None.
OrEmptyDict(x) == IF x = None \/ DOMAIN x = {} THEN EmptyDict ELSE x

\* dict.get(key, default)
Get(d, key, default) == IF key \in DOMAIN d THEN d[key] ELSE default

\* d[key] = value
Put(d, key, value) ==
    [k \in DOMAIN d \cup {key} |-> IF k = key THEN value ELSE d[k]]

\* The default of parameter confidence: 1.0.
DefaultConfidence == 100

\* The default of parameter similarity: 0.0.
ZeroSimilarity == <<0, 1>>

\* Entity.__init__
Entity(entity_id, entity_type, name, properties, confidence) ==
    [id |-> entity_id, type |-> entity_type, name |-> name,
     properties |-> OrEmptyDict(properties), confidence |-> confidence]

\* Relationship.__init__
Relationship(rel_id, rel_type, source, target, properties, confidence) ==
    [id |-> rel_id, type |-> rel_type, source |-> source, target |-> target,
     properties |-> OrEmptyDict(properties), confidence |-> confidence]

\* TextChunk.__init__
TextChunk(chunk_id, text, metadata, similarity) ==
    [id |-> chunk_id, text |-> text, metadata |-> OrEmptyDict(metadata),
     similarity |-> similarity]

\* Entity.to_dict
Entity_to_dict(e) ==
    [id |-> e.id, type |-> e.type, name |-> e.name, properties |-> e.properties,
     confidence |-> e.confidence]

\* Relationship.to_dict
Relationship_to_dict(r) ==
    [id |-> r.id, type |-> r.type, source |-> r.source, target |-> r.target,
     properties |-> r.properties, confidence |-> r.confidence]

\* What TextChunk.to_dict writes with the similarity left out.
TextChunk_to_dict_NoSimilarity(c) ==
    [id |-> c.id, text |-> c.text, metadata |-> c.metadata]

\* TextChunk.to_dict
TextChunk_to_dict(c) ==
    [id |-> c.id, text |-> c.text, metadata |-> c.metadata, similarity |-> c.similarity]

\* data[key] raises KeyError when a required key is missing.
HasKeys(data, keys) == keys \subseteq DOMAIN data

Entity_required == {"id", "type", "name"}

Relationship_required == {"id", "type", "source", "target"}

TextChunk_required == {"id", "text"}

\* Entity.from_dict
Entity_from_dict(data) ==
    Entity(data.id, data.type, data.name,
           Get(data, "properties", EmptyDict), Get(data, "confidence", DefaultConfidence))

\* Relationship.from_dict
Relationship_from_dict(data) ==
    Relationship(data.id, data.type, data.source, data.target,
                 Get(data, "properties", EmptyDict),
                 Get(data, "confidence", DefaultConfidence))

\* TextChunk.from_dict
TextChunk_from_dict(data) ==
    TextChunk(data.id, data.text, Get(data, "metadata", EmptyDict),
              Get(data, "similarity", ZeroSimilarity))

\* The identifiers: f"entity-{suffix}", f"rel-{suffix}", f"chunk-{suffix}", the
\* suffix being the first 8 hexadecimal digits of a uuid4 (a number here).
EntityId(suffix) == <<"entity-", suffix>>

RelId(suffix) == <<"rel-", suffix>>

ChunkId(suffix) == <<"chunk-", suffix>>

\* A store value: the four attributes of a KnowledgeGraph.
\* KnowledgeGraph.__init__
EmptyGraph ==
    [entities |-> << >>, relationships |-> << >>, text_chunks |-> << >>,
     entity_map |-> EmptyDict]

\* The store the variables hold.
kg == [entities |-> entities, relationships |-> relationships,
       text_chunks |-> text_chunks, entity_map |-> entity_map]

\* KnowledgeGraph.add_entity; suffix is what uuid4 gave. Returns the store.
add_entity(g, suffix, entity_type, name, properties, confidence) ==
    LET entity == Entity(EntityId(suffix), entity_type, name, properties, confidence)
    IN  [g EXCEPT !.entities = Append(@, entity),
                  !.entity_map = Put(@, entity.id, entity)]

\* KnowledgeGraph.add_relationship
add_relationship(g, suffix, rel_type, source, target, properties, confidence) ==
    [g EXCEPT !.relationships =
        Append(@, Relationship(RelId(suffix), rel_type, source, target, properties,
                               confidence))]

\* KnowledgeGraph.add_text_chunk
add_text_chunk(g, suffix, text, metadata) ==
    [g EXCEPT !.text_chunks =
        Append(@, TextChunk(ChunkId(suffix), text, metadata, ZeroSimilarity))]

\* KnowledgeGraph.get_entity: the entity, or None.
get_entity(g, entity_id) == Get(g.entity_map, entity_id, None)

\* KnowledgeGraph.get_entities_by_type
get_entities_by_type(g, entity_type) ==
    SelectSeq(g.entities, LAMBDA e : e.type = entity_type)

\* A filter that looks at the source of a relationship only.
get_relationships_for_entity_SourceOnly(g, entity_id) ==
    SelectSeq(g.relationships, LAMBDA r : r.source = entity_id)

\* KnowledgeGraph.get_relationships_for_entity
get_relationships_for_entity(g, entity_id) ==
    SelectSeq(g.relationships, LAMBDA r : r.source = entity_id \/ r.target = entity_id)

\* A clear() that forgets to reset the index.
clear_KeepsIndex(g) ==
    [entities |-> << >>, relationships |-> << >>, text_chunks |-> << >>,
     entity_map |-> g.entity_map]

\* KnowledgeGraph.clear
clear(g) ==
    [entities |-> << >>, relationships |-> << >>, text_chunks |-> << >>,
     entity_map |-> EmptyDict]

\* KnowledgeGraph.save: the data json.dump writes.
save(g) ==
    [entities |-> [i \in 1..Len(g.entities) |-> Entity_to_dict(g.entities[i])],
     relationships |->
        [i \in 1..Len(g.relationships) |-> Relationship_to_dict(g.relationships[i])],
     text_chunks |->
        [i \in 1..Len(g.text_chunks) |-> TextChunk_to_dict(g.text_chunks[i])]]

\* {e.id: e for e in self.entities}: a later entity replaces an earlier one.
RECURSIVE build_entity_map(_, _)
build_entity_map(es, acc) ==
    IF Len(es) = 0 THEN acc
    ELSE build_entity_map(Tail(es), Put(acc, Head(es).id, Head(es)))

\* A load that appends the file's records to the ones already there.
load_records_Merging(g, data) ==
    LET es == Get(data, "entities", << >>)
        rs == Get(data, "relationships", << >>)
        cs == Get(data, "text_chunks", << >>)
    IN  IF \/ \E i \in 1..Len(es) : ~HasKeys(es[i], Entity_required)
           \/ \E i \in 1..Len(rs) : ~HasKeys(rs[i], Relationship_required)
           \/ \E i \in 1..Len(cs) : ~HasKeys(cs[i], TextChunk_required)
            THEN [raised |-> TRUE, g |-> g]
        ELSE [raised |-> FALSE,
              g |-> [entities |-> g.entities \o
                        [i \in 1..Len(es) |-> Entity_from_dict(es[i])],
                     relationships |-> g.relationships \o
                        [i \in 1..Len(rs) |-> Relationship_from_dict(rs[i])],
                     text_chunks |-> g.text_chunks \o
                        [i \in 1..Len(cs) |-> TextChunk_from_dict(cs[i])],
                     entity_map |-> build_entity_map(
                        g.entities \o [i \in 1..Len(es) |-> Entity_from_dict(es[i])],
                        EmptyDict)]]

\* KnowledgeGraph.load once the file is open and parsed (data): clear(), then the
\* three comprehensions and the index, in the code's order. A record lacking a
\* required key raises KeyError at its comprehension; the assignments made before
\* stand. Returns the store and whether the call raised.
load_records(g, data) ==
    LET es == Get(data, "entities", << >>)
        rs == Get(data, "relationships", << >>)
        cs == Get(data, "text_chunks", << >>)
        g0 == clear(g)
        g1 == [g0 EXCEPT !.entities = [i \in 1..Len(es) |-> Entity_from_dict(es[i])]]
        g2 == [g1 EXCEPT !.relationships =
                  [i \in 1..Len(rs) |-> Relationship_from_dict(rs[i])]]
        g3 == [g2 EXCEPT !.text_chunks =
                  [i \in 1..Len(cs) |-> TextChunk_from_dict(cs[i])]]
        g4 == [g3 EXCEPT !.entity_map = build_entity_map(g3.entities, EmptyDict)]
    IN  IF \E i \in 1..Len(es) : ~HasKeys(es[i], Entity_required)
            THEN [raised |-> TRUE, g |-> g0]
        ELSE IF \E i \in 1..Len(rs) : ~HasKeys(rs[i], Relationship_required)
            THEN [raised |-> TRUE, g |-> g1]
        ELSE IF \E i \in 1..Len(cs) : ~HasKeys(cs[i], TextChunk_required)
            THEN [raised |-> TRUE, g |-> g2]
        ELSE [raised |-> FALSE, g |-> g4]

\* entity_types[t] = entity_types.get(t, 0) + 1 over a sequence of records.
RECURSIVE count_types(_, _)
count_types(records, acc) ==
    IF Len(records) = 0 THEN acc
    ELSE count_types(Tail(records),
                     Put(acc, Head(records).type, Get(acc, Head(records).type, 0) + 1))

\* A type count that records each type once.
get_stats_CountsTypesOnce(g) ==
    [entity_count |-> Len(g.entities),
     relationship_count |-> Len(g.relationships),
     text_chunk_count |-> Len(g.text_chunks),
     entity_types |-> [t \in {g.entities[i].type : i \in 1..Len(g.entities)} |-> 1],
     relationship_types |->
        [t \in {g.relationships[i].type : i \in 1..Len(g.relationships)} |-> 1]]

\* KnowledgeGraph.get_stats
get_stats(g) ==
    [entity_count |-> Len(g.entities),
     relationship_count |-> Len(g.relationships),
     text_chunk_count |-> Len(g.text_chunks),
     entity_types |-> count_types(g.entities, EmptyDict),
     relationship_types |-> count_types(g.relationships, EmptyDict)]

\* A load that clears the store before it looks for the file.
load_ClearsBeforeCheck(g, fs, filename) ==
    IF filename \notin DOMAIN fs
        THEN [value |-> FALSE, raised |-> FALSE, g |-> clear(g)]
    ELSE LET r == load_records(g, fs[filename])
         IN  [value |-> ~r.raised, raised |-> r.raised, g |-> r.g]

\* KnowledgeGraph.load on the files fs: False when the path does not exist, else
\* the records are loaded and the call returns True (value is what was returned;
\* a call that raised returned nothing).
load(g, fs, filename) ==
    IF filename \notin DOMAIN fs
        THEN [value |-> FALSE, raised |-> FALSE, g |-> g]
    ELSE LET r == load_records(g, fs[filename])
         IN  [value |-> ~r.raised, raised |-> r.raised, g |-> r.g]

(***************************************************************************)
(* The extraction pipeline (document_processor.py): the policy strategy.   *)
(***************************************************************************)

\* The suffix the k-th uuid4 call of one process_document call gives. The draws
\* are random: seed chooses among them. With step 0 every call of the run draws
\* the same suffix; with step 1 the suffixes of one run differ, and two runs
\* with the same base draw the same suffixes.
uuid4(seed, k) == seed.base + seed.step * k

\* The state of one process_document call: the store, the number of uuid4 calls
\* made, whether an exception has ended the call, and requirement_ids.
StartRun(g) == [g |-> g, k |-> 0, raised |-> FALSE, requirement_ids |-> << >>]

\* The suffix the next add call of the run draws.
NextSuffix(st, seed) == uuid4(seed, st.k + 1)

run_add_entity(st, seed, entity_type, name, properties, confidence) ==
    [st EXCEPT !.g = add_entity(@, NextSuffix(st, seed), entity_type, name, properties,
                                confidence),
               !.k = @ + 1]

run_add_relationship(st, seed, rel_type, source, target, properties, confidence) ==
    [st EXCEPT !.g = add_relationship(@, NextSuffix(st, seed), rel_type, source, target,
                                      properties, confidence),
               !.k = @ + 1]

run_add_text_chunk(st, seed, text, metadata) ==
    [st EXCEPT !.g = add_text_chunk(@, NextSuffix(st, seed), text, metadata),
               !.k = @ + 1]

\* A classification that looks for the keywords in the file name as written.
policy_type_of_CaseSensitive(document_name) ==
    LET n == document_name
    IN  IF Contains(n, <<"l","o","a","n">>)
            THEN <<"L","o","a","n"," ","P","o","l","i","c","y">>
        ELSE IF \/ Contains(n, <<"d","a","t","a">>)
                \/ Contains(n, <<"p","r","o","t","e","c","t","i","o","n">>)
            \* "Data Protection Policy"
            THEN <<"D","a","t","a"," ","P","r","o","t","e","c","t","i","o","n"," ",
                   "P","o","l","i","c","y">>
        ELSE IF \/ Contains(n, <<"f","r","a","u","d">>)
                \/ Contains(n, <<"p","r","e","v","e","n","t","i","o","n">>)
            \* "Fraud Prevention Policy"
            THEN <<"F","r","a","u","d"," ","P","r","e","v","e","n","t","i","o","n"," ",
                   "P","o","l","i","c","y">>
        ELSE <<"B","a","n","k"," ","P","o","l","i","c","y">>

\* The policy type, decided on the lower-cased file name.
policy_type_of(document_name) ==
    LET n == lower(document_name)
    IN  IF Contains(n, <<"l","o","a","n">>)
            THEN <<"L","o","a","n"," ","P","o","l","i","c","y">>
        ELSE IF \/ Contains(n, <<"d","a","t","a">>)
                \/ Contains(n, <<"p","r","o","t","e","c","t","i","o","n">>)
            \* "Data Protection Policy"
            THEN <<"D","a","t","a"," ","P","r","o","t","e","c","t","i","o","n"," ",
                   "P","o","l","i","c","y">>
        ELSE IF \/ Contains(n, <<"f","r","a","u","d">>)
                \/ Contains(n, <<"p","r","e","v","e","n","t","i","o","n">>)
            \* "Fraud Prevention Policy"
            THEN <<"F","r","a","u","d"," ","P","r","e","v","e","n","t","i","o","n"," ",
                   "P","o","l","i","c","y">>
        ELSE <<"B","a","n","k"," ","P","o","l","i","c","y">>

\* re.match(r'^\d+\.', line)
is_numbered(line) ==
    LET d == SkipWhile(line, 1, Digits)
    IN  d > 1 /\ d <= Len(line) /\ line[d] = "."

\* re.match(r'^(\d+)\.\s+(.*)', line): whether it matches, and its two groups.
requirement_match(line) ==
    LET d == SkipWhile(line, 1, Digits)
        w == SkipWhile(line, d + 1, Whitespace)
    IN  IF is_numbered(line) /\ w > d + 1
            THEN [matched |-> TRUE, number |-> SubSeq(line, 1, d - 1),
                  text |-> From(line, w)]
        ELSE [matched |-> FALSE, number |-> << >>, text |-> << >>]

\* re.findall(r'\$([0-9,]+)', s) from position i on: the runs of digits and
\* commas that follow a '$'.
RECURSIVE findall_money(_, _)
findall_money(s, i) ==
    LET p == FindChar(s, i, "$")
        q == SkipWhile(s, p + 1, Digits \cup {","})
    IN  IF p > Len(s) THEN << >>
        ELSE IF q = p + 1 THEN findall_money(s, p + 1)
        ELSE <<SubSeq(s, p + 1, q - 1)>> \o findall_money(s, q)

\* The alternatives of the time pattern, in the pattern's order.
time_units ==
    <<<<"d","a","y">>, <<"h","o","u","r">>, <<"m","i","n","u","t","e">>,
      <<"b","u","s","i","n","e","s","s"," ","d","a","y">>, <<"w","e","e","k">>,
      <<"m","o","n","t","h">>, <<"y","e","a","r">>>>

\* p, in lower case, occurs in s at position i when case is ignored.
MatchAtNoCase(s, i, p) ==
    /\ i >= 1
    /\ i + Len(p) - 1 <= Len(s)
    /\ \A j \in 1..Len(p) : LowerChar(s[i + j - 1]) = p[j]

\* The first alternative that matches s at position i, ignoring case (0 if none).
unit_at(s, i) ==
    LET ok == {u \in 1..Len(time_units) : MatchAtNoCase(s, i, time_units[u])}
    IN  IF ok = {} THEN 0 ELSE CHOOSE u \in ok : \A v \in ok : u <= v

\* The match of (\d+)\s+(unit)s? that starts at position i, if there is one:
\* its two groups, and the position after it.
time_match_at(s, i) ==
    LET d == SkipWhile(s, i, Digits)
        w == SkipWhile(s, d, Whitespace)
        u == IF d > i /\ w > d THEN unit_at(s, w) ELSE 0
        e == IF u = 0 THEN 0 ELSE w + Len(time_units[u])
        after == IF u # 0 /\ e <= Len(s) /\ LowerChar(s[e]) = "s" THEN e + 1 ELSE e
    IN  IF u = 0 THEN [matched |-> FALSE, groups |-> << >>, after |-> i]
        ELSE [matched |-> TRUE,
              groups |-> <<SubSeq(s, i, d - 1), SubSeq(s, w, e - 1)>>,
              after |-> after]

\* re.findall(r'(\d+)\s+(day|hour|minute|business day|week|month|year)s?', s,
\* re.IGNORECASE) from position i on.
\* A match starts with a digit: the search goes from digit to digit.
RECURSIVE findall_time(_, _)
findall_time(s, i) ==
    LET a == SkipWhile(s, i, {c \in {s[j] : j \in 1..Len(s)} : c \notin Digits})
    IN  IF a > Len(s) THEN << >>
        ELSE IF time_match_at(s, a).matched
            THEN <<time_match_at(s, a).groups>> \o findall_time(s, time_match_at(s, a).after)
        ELSE findall_time(s, a + 1)

\* re.findall(r'(\d+)%', s) from position i on.
RECURSIVE findall_percent(_, _)
findall_percent(s, i) ==
    LET a == SkipWhile(s, i, {c \in {s[j] : j \in 1..Len(s)} : c \notin Digits})
        d == SkipWhile(s, a, Digits)
    IN  IF a > Len(s) THEN << >>
        ELSE IF d <= Len(s) /\ s[d] = "%"
            THEN <<SubSeq(s, a, d - 1)>> \o findall_percent(s, d + 1)
        ELSE findall_percent(s, d)

\* role_patterns
role_patterns ==
    <<<<"c","u","s","t","o","m","e","r">>, <<"e","m","p","l","o","y","e","e">>,
      <<"o","f","f","i","c","e","r">>, <<"t","e","a","m">>,
      <<"S","e","n","i","o","r"," ","L","o","a","n"," ","O","f","f","i","c","e","r">>,
      <<"f","r","a","u","d"," ","d","e","t","e","c","t","i","o","n"," ","t","e","a","m">>,
      <<"u","s","e","r">>>>

\* The loop over money_matches (lines 83-100). int('') raises ValueError when the
\* match holds commas only.
RECURSIVE money_loop(_, _, _, _, _)
money_loop(st, seed, req_id, req_text, matches) ==
    IF st.raised \/ Len(matches) = 0 THEN st
    ELSE LET match == Head(matches)
             amount == remove_char(match, ",")
             threshold_id == EntityId(NextSuffix(st, seed))
             st1 == run_add_entity(st, seed, "Threshold",
                        <<"$">> \o match \o <<" ","T","h","r","e","s","h","o","l","d">>,
                        [amount |-> IntVal(int(amount)), text |-> StrVal(req_text)], 85)
             st2 == run_add_relationship(st1, seed, "MENTIONS", req_id, threshold_id,
                        None, 80)
         IN  IF Len(amount) = 0 THEN [st EXCEPT !.raised = TRUE]
             ELSE money_loop(st2, seed, req_id, req_text, Tail(matches))

\* The loop over time_matches (lines 104-118).
RECURSIVE time_loop(_, _, _, _, _)
time_loop(st, seed, req_id, req_text, matches) ==
    IF Len(matches) = 0 THEN st
    ELSE LET match == Head(matches)
             time_period == match[1] \o <<" ">> \o match[2]
             time_id == EntityId(NextSuffix(st, seed))
             st1 == run_add_entity(st, seed, "TimePeriod", time_period,
                        [text |-> StrVal(req_text)], 85)
             st2 == run_add_relationship(st1, seed, "SPECIFIES", req_id, time_id,
                        None, 80)
         IN  time_loop(st2, seed, req_id, req_text, Tail(matches))

\* The loop over percent_matches (lines 122-138).
RECURSIVE percent_loop(_, _, _, _, _)
percent_loop(st, seed, req_id, req_text, matches) ==
    IF Len(matches) = 0 THEN st
    ELSE LET match == Head(matches)
             percent_id == EntityId(NextSuffix(st, seed))
             st1 == run_add_entity(st, seed, "Percentage", match \o <<"%">>,
                        [value |-> IntVal(int(match)), text |-> StrVal(req_text)], 85)
             st2 == run_add_relationship(st1, seed, "SPECIFIES", req_id, percent_id,
                        None, 80)
         IN  percent_loop(st2, seed, req_id, req_text, Tail(matches))

\* A role test that compares the pattern as written with the text as written.
role_matches_CaseSensitive(role, req_text) == Contains(req_text, role)

\* role.lower() in req_text.lower()
role_matches(role, req_text) == Contains(lower(req_text), lower(role))

\* The loop over role_patterns (lines 146-160).
RECURSIVE role_loop(_, _, _, _, _)
role_loop(st, seed, req_id, req_text, roles) ==
    IF Len(roles) = 0 THEN st
    ELSE LET role == Head(roles)
             role_id == EntityId(NextSuffix(st, seed))
             st1 == run_add_entity(st, seed, "Role", capitalize(role),
                        [text |-> StrVal(req_text)], 85)
             st2 == run_add_relationship(st1, seed, "INVOLVES", req_id, role_id,
                        None, 80)
         IN  role_loop(IF role_matches(role, req_text) THEN st2 ELSE st,
                       seed, req_id, req_text, Tail(roles))

\* The sub-extractions that follow the monetary one (lines 102-160); an
\* exception in the monetary loop has ended the call.
after_money(st, seed, req_id, req_text) ==
    IF st.raised THEN st
    ELSE role_loop(
            percent_loop(
                time_loop(st, seed, req_id, req_text, findall_time(req_text, 1)),
                seed, req_id, req_text, findall_percent(req_text, 1)),
            seed, req_id, req_text, role_patterns)

\* requirement_ids.append(req_id)
append_requirement_id(st, req_id) ==
    [st EXCEPT !.requirement_ids = Append(@, req_id)]

\* One numbered requirement (lines 57-160): the Requirement entity, its
\* HAS_REQUIREMENT relationship, then the four sub-extractions.
process_requirement(st, seed, policy_id, policy_type, section, req_number, req_text) ==
    LET req_id == EntityId(NextSuffix(st, seed))
    IN  after_money(
            money_loop(
                run_add_relationship(
                    append_requirement_id(
                        run_add_entity(st, seed, "Requirement",
                            <<"R","e","q","u","i","r","e","m","e","n","t"," ">> \o req_number,
                            [text |-> StrVal(req_text),
                             \* current_section or policy_type
                             section |-> StrVal(IF Len(section) = 0
                                                THEN policy_type ELSE section)],
                            90),
                        req_id),
                    seed, "HAS_REQUIREMENT", policy_id, req_id, None, 95),
                seed, req_id, req_text, findall_money(req_text, 1)),
            seed, req_id, req_text)

\* A scan in which every line that is not blank becomes the section.
section_after_AnyLine(current_section, line) ==
    IF Len(line) > 0 THEN line ELSE current_section

\* The section and the run after one stripped line (lines 50-160): a line that
\* is not numbered becomes the section, a numbered requirement is processed.
section_after(current_section, line) ==
    IF Len(line) > 0 /\ ~is_numbered(line) THEN line ELSE current_section

run_after(st, seed, policy_id, policy_type, current_section, line, m) ==
    IF Len(line) > 0 /\ ~is_numbered(line) THEN st
    ELSE IF m.matched
        THEN process_requirement(st, seed, policy_id, policy_type, current_section,
                                 m.number, m.text)
    ELSE st

\* The loop over the lines (lines 47-160); an exception ends it.
RECURSIVE line_loop(_, _, _, _, _, _)
line_loop(st, seed, policy_id, policy_type, current_section, lines) ==
    IF st.raised \/ Len(lines) = 0 THEN st
    ELSE line_loop(run_after(st, seed, policy_id, policy_type, current_section,
                             strip(Head(lines)), requirement_match(strip(Head(lines)))),
                   seed, policy_id, policy_type,
                   section_after(current_section, strip(Head(lines))), Tail(lines))

\* The first entity of the sequence with this id (None if there is none).
first_with_id(es, entity_id) ==
    LET hits == SelectSeq(es, LAMBDA e : e.id = entity_id)
    IN  IF Len(hits) = 0 THEN None ELSE hits[1]

\* The loop over policy_entities that adds the RELATED_TO relationships
\* (lines 174-182).
RECURSIVE related_loop(_, _, _, _)
related_loop(st, seed, this_id, others) ==
    IF Len(others) = 0 THEN st
    ELSE related_loop(
            IF Head(others).id # this_id
                THEN run_add_relationship(st, seed, "RELATED_TO", this_id,
                        Head(others).id,
                        \* {"reason": "Policy relationship"}
                        [reason |-> StrVal(<<"P","o","l","i","c","y"," ","r","e","l","a",
                                             "t","i","o","n","s","h","i","p">>)],
                        70)
            ELSE st,
            seed, this_id, Tail(others))

\* The linking of the policies (lines 163-182).
link_policies(st, seed, policy_id) ==
    LET policy_entities == get_entities_by_type(st.g, "Policy")
        this_policy == first_with_id(policy_entities, policy_id)
    IN  IF Len(policy_entities) >= 2 /\ this_policy # None
            THEN related_loop(st, seed, this_policy.id, policy_entities)
        ELSE st

\* The summary _process_banking_policy returns, with the store and whether the
\* call raised.
policy_summary(st, policy_id) ==
    [g |-> st.g, raised |-> st.raised,
     value |-> [policy_id |-> policy_id,
                requirement_ids |-> st.requirement_ids,
                entity_count |-> Len(st.g.entities),
                relationship_count |-> Len(st.g.relationships)]]

\* The end of the call (lines 162-189) unless an exception has ended it.
finish_policy(st, seed, policy_id) ==
    policy_summary(IF st.raised THEN st ELSE link_policies(st, seed, policy_id),
                   policy_id)

\* DocumentProcessor._process_banking_policy: the store it leaves, whether it
\* raised, and the summary it returns when it did not.
process_banking_policy(g, seed, text, document_name) ==
    LET policy_id == EntityId(NextSuffix(StartRun(g), seed))
    IN  finish_policy(
            line_loop(
                run_add_text_chunk(
                    run_add_entity(StartRun(g), seed, "Policy",
                        policy_type_of(document_name),
                        [filename |-> StrVal(document_name)], 95),
                    seed, text,
                    [source |-> StrVal(document_name),
                     policy |-> StrVal(policy_type_of(document_name))]),
                seed, policy_id, policy_type_of(document_name), << >>,
                split_sep(text, "\n")),
            seed, policy_id)

(***************************************************************************)
(* The generic strategy (_process_generic_document).                       *)
(***************************************************************************)

\* The characters [a-z] and [A-Z] match.
LowerLetters == DOMAIN UpperOf

UpperLetters == DOMAIN LowerOf

\* The characters \w matches.
WordChars == LowerLetters \cup UpperLetters \cup Digits \cup {"_"}

\* \b at position i: of the characters before and at i, one is a word character
\* and the other is not (or is missing).
Boundary(s, i) ==
    (i > 1 /\ i - 1 <= Len(s) /\ s[i - 1] \in WordChars)
        # (i >= 1 /\ i <= Len(s) /\ s[i] \in WordChars)

\* The n characters from position a on are digits.
AllDigits(s, a, n) == a + n - 1 <= Len(s) /\ \A j \in a..(a + n - 1) : s[j] \in Digits

\* s[:100]
first_100(s) == SubSeq(s, 1, IF Len(s) < 100 THEN Len(s) ELSE 100)

\* The last position of the match of \n\s*\n that starts at p (0 if there is
\* none): the last newline of the whitespace that follows the newline at p.
blank_end(s, p) ==
    IF s[p] # "\n" THEN 0
    ELSE IF \A e \in (p + 1)..(SkipWhile(s, p + 1, Whitespace) - 1) : s[e] # "\n" THEN 0
    ELSE CHOOSE e \in (p + 1)..(SkipWhile(s, p + 1, Whitespace) - 1) :
            /\ s[e] = "\n"
            /\ \A f \in (e + 1)..(SkipWhile(s, p + 1, Whitespace) - 1) : s[f] # "\n"

\* re.split(r'\n\s*\n', s)
RECURSIVE split_paragraphs(_)
split_paragraphs(s) ==
    IF \A p \in 1..Len(s) : blank_end(s, p) = 0 THEN <<s>>
    ELSE <<SubSeq(s, 1, Least({p \in 1..Len(s) : blank_end(s, p) > 0}) - 1)>>
            \o split_paragraphs(
                  From(s, blank_end(s, Least({p \in 1..Len(s) : blank_end(s, p) > 0})) + 1))

\* The month names of the date pattern.
Months ==
    {<<"J","a","n">>, <<"F","e","b">>, <<"M","a","r">>, <<"A","p","r">>, <<"M","a","y">>,
     <<"J","u","n">>, <<"J","u","l">>, <<"A","u","g">>, <<"S","e","p">>, <<"O","c","t">>,
     <<"N","o","v">>, <<"D","e","c">>}

\* The numbers of digits \d{1,2}, \d{1,2} and \d{2,4} may take, in the order the
\* greedy quantifiers try them.
DateShapes ==
    <<<<2, 2, 4>>, <<2, 2, 3>>, <<2, 2, 2>>, <<2, 1, 4>>, <<2, 1, 3>>, <<2, 1, 2>>,
      <<1, 2, 4>>, <<1, 2, 3>>, <<1, 2, 2>>, <<1, 1, 4>>, <<1, 1, 3>>, <<1, 1, 2>>>>

\* The position after \d{1,2}[/-]\d{1,2}[/-]\d{2,4}\b matched at p with the
\* numbers of digits of shape n (0 if it does not match).
numeric_date_after(s, p, n) ==
    IF /\ AllDigits(s, p, n[1])
       /\ p + n[1] <= Len(s) /\ s[p + n[1]] \in {"/", "-"}
       /\ AllDigits(s, p + n[1] + 1, n[2])
       /\ p + n[1] + n[2] + 1 <= Len(s) /\ s[p + n[1] + n[2] + 1] \in {"/", "-"}
       /\ AllDigits(s, p + n[1] + n[2] + 2, n[3])
       /\ Boundary(s, p + n[1] + n[2] + n[3] + 2)
        THEN p + n[1] + n[2] + n[3] + 2
    ELSE 0

\* The position after \d{1,2} (Jan|...|Dec)[a-z]* \d{2,4}\b matched at p with
\* n[1] and n[3] digits (0 if it does not match); m is the position after the
\* lower-case letters that follow the month.
named_date_tail(s, m, n) ==
    IF /\ m <= Len(s) /\ s[m] = " "
       /\ AllDigits(s, m + 1, n[3])
       /\ Boundary(s, m + 1 + n[3])
        THEN m + 1 + n[3]
    ELSE 0

named_date_after(s, p, n) ==
    IF /\ AllDigits(s, p, n[1])
       /\ p + n[1] + 3 <= Len(s) /\ s[p + n[1]] = " "
       /\ SubSeq(s, p + n[1] + 1, p + n[1] + 3) \in Months
        THEN named_date_tail(s, SkipWhile(s, p + n[1] + 4, LowerLetters), n)
    ELSE 0

\* The position after the match of the date pattern that starts at p (0 if there
\* is none): the first alternative and the first numbers of digits that match.
date_after(s, p) ==
    IF ~(p <= Len(s) /\ s[p] \in Digits /\ Boundary(s, p)) THEN 0
    ELSE IF \E k \in 1..Len(DateShapes) : numeric_date_after(s, p, DateShapes[k]) > 0
        THEN numeric_date_after(s, p,
                DateShapes[Least({k \in 1..Len(DateShapes) :
                                    numeric_date_after(s, p, DateShapes[k]) > 0})])
    ELSE IF \E k \in 1..Len(DateShapes) : named_date_after(s, p, DateShapes[k]) > 0
        THEN named_date_after(s, p,
                DateShapes[Least({k \in 1..Len(DateShapes) :
                                    named_date_after(s, p, DateShapes[k]) > 0})])
    ELSE 0

\* match[0] of the matches re.findall gives for the date pattern, from position
\* i on.
RECURSIVE findall_date(_, _)
findall_date(s, i) ==
    IF \A p \in i..Len(s) : date_after(s, p) = 0 THEN << >>
    ELSE <<SubSeq(s, Least({p \in i..Len(s) : date_after(s, p) > 0}),
                  date_after(s, Least({p \in i..Len(s) : date_after(s, p) > 0})) - 1)>>
            \o findall_date(s, date_after(s, Least({p \in i..Len(s) : date_after(s, p) > 0})))

\* The position after [A-Z][a-z]+ matched at p (0 if it does not match).
capitalized_after(s, p) ==
    IF p + 1 <= Len(s) /\ s[p] \in UpperLetters /\ s[p + 1] \in LowerLetters
        THEN SkipWhile(s, p + 1, LowerLetters)
    ELSE 0

\* The position after (?:\s+[A-Z][a-z]+)*\b matched at e, the position after a
\* capitalized word (0 if it does not match): as many further words as can be
\* followed by a boundary.
RECURSIVE more_words_after(_, _)
more_words_after(s, e) ==
    IF /\ SkipWhile(s, e, Whitespace) > e
       /\ capitalized_after(s, SkipWhile(s, e, Whitespace)) > 0
       /\ more_words_after(s, capitalized_after(s, SkipWhile(s, e, Whitespace))) > 0
        THEN more_words_after(s, capitalized_after(s, SkipWhile(s, e, Whitespace)))
    ELSE IF Boundary(s, e) THEN e
    ELSE 0

\* The position after the match of the organization pattern that starts at p
\* (0 if there is none).
org_after(s, p) ==
    IF /\ p <= Len(s) /\ Boundary(s, p)
       /\ capitalized_after(s, p) > 0
       /\ capitalized_after(s, p) <= Len(s) /\ s[capitalized_after(s, p)] = " "
       /\ capitalized_after(s, capitalized_after(s, p) + 1) > 0
        THEN more_words_after(s, capitalized_after(s, capitalized_after(s, p) + 1))
    ELSE 0

\* re.findall of the organization pattern from position i on.
RECURSIVE findall_org(_, _)
findall_org(s, i) ==
    IF \A p \in i..Len(s) : org_after(s, p) = 0 THEN << >>
    ELSE <<SubSeq(s, Least({p \in i..Len(s) : org_after(s, p) > 0}),
                  org_after(s, Least({p \in i..Len(s) : org_after(s, p) > 0})) - 1)>>
            \o findall_org(s, org_after(s, Least({p \in i..Len(s) : org_after(s, p) > 0})))

\* The position after (?:,\d+)* matched at e.
RECURSIVE comma_groups_after(_, _)
comma_groups_after(s, e) ==
    IF e + 1 <= Len(s) /\ s[e] = "," /\ s[e + 1] \in Digits
        THEN comma_groups_after(s, SkipWhile(s, e + 1, Digits))
    ELSE e

\* The position after (?:\.\d+)? matched at e.
fraction_after(s, e) ==
    IF e + 1 <= Len(s) /\ s[e] = "." /\ s[e + 1] \in Digits
        THEN SkipWhile(s, e + 1, Digits)
    ELSE e

\* The position after \d+(?:,\d+)*(?:\.\d+)? matched at p, where a digit is.
value_after(s, p) == fraction_after(s, comma_groups_after(s, SkipWhile(s, p, Digits)))

\* The alternatives of the unit, in the pattern's order, in lower case.
number_units ==
    <<<<"p","e","r","c","e","n","t">>, <<"%">>, <<"d","o","l","l","a","r","s">>,
      <<"u","s","d">>, <<"$">>, <<"e","u","r","o","s">>, <<"e","u","r">>, <<"€">>>>

\* The alternatives that match at w, ignoring case, and are followed by \b.
units_at(s, w) ==
    {u \in 1..Len(number_units) :
        MatchAtNoCase(s, w, number_units[u]) /\ Boundary(s, w + Len(number_units[u]))}

\* The match of the number pattern that starts at p, if there is one: the two
\* groups and the position after it. Only the longest value can be followed by
\* a unit, since no unit starts with a digit, a comma or a dot.
number_match_at(s, p) ==
    IF ~(p <= Len(s) /\ s[p] \in Digits /\ Boundary(s, p))
        THEN [matched |-> FALSE, groups |-> << >>, after |-> p]
    ELSE IF units_at(s, SkipWhile(s, value_after(s, p), Whitespace)) = {}
        THEN [matched |-> FALSE, groups |-> << >>, after |-> p]
    ELSE [matched |-> TRUE,
          groups |-> <<SubSeq(s, p, value_after(s, p) - 1),
                       number_units[Least(units_at(s,
                            SkipWhile(s, value_after(s, p), Whitespace)))]>>,
          after |-> SkipWhile(s, value_after(s, p), Whitespace)
                    + Len(number_units[Least(units_at(s,
                            SkipWhile(s, value_after(s, p), Whitespace)))])]

\* re.findall of the number pattern (re.IGNORECASE) from position i on; the
\* second group is given as unit = match[1].lower() has it.
RECURSIVE findall_number(_, _)
findall_number(s, i) ==
    IF \A p \in i..Len(s) : ~number_match_at(s, p).matched THEN << >>
    ELSE <<number_match_at(s, Least({p \in i..Len(s) : number_match_at(s, p).matched})).groups>>
            \o findall_number(s,
                  number_match_at(s, Least({p \in i..Len(s) : number_match_at(s, p).matched})).after)

RECURSIVE power_of_ten(_)
power_of_ten(n) == IF n = 0 THEN 1 ELSE 10 * power_of_ten(n - 1)

\* A property value that is a float: the reduced fraction it stands for.
FloatVal(num, den) == [float |-> <<num \div gcd(num, den), den \div gcd(num, den)>>]

\* float(value) for digits with an optional '.' and digits: the decimal as a
\* fraction (the rounding of floats is not modelled).
float(value) ==
    FloatVal(int(remove_char(value, ".")),
             power_of_ten(IF FindChar(value, 1, ".") > Len(value) THEN 0
                          ELSE Len(value) - FindChar(value, 1, ".")))

\* entity_type and name of a quantity (lines 263-274).
quantity_type(unit) ==
    IF unit \in {<<"p","e","r","c","e","n","t">>, <<"%">>} THEN "Percentage"
    ELSE "MonetaryValue"

quantity_name(value, unit) ==
    IF unit \in {<<"p","e","r","c","e","n","t">>, <<"%">>} THEN value \o <<"%">>
    ELSE IF unit \in {<<"d","o","l","l","a","r","s">>, <<"u","s","d">>, <<"$">>}
        THEN <<"$">> \o value
    ELSE <<"€">> \o value

\* re.findall(r'\b[A-Za-z]{4,}\b', s) from position i on: the runs of word
\* characters that are letters only, four at least.
RECURSIVE findall_words(_, _)
findall_words(s, i) ==
    LET a == SkipWhile(s, i, {c \in {s[j] : j \in 1..Len(s)} : c \notin WordChars})
    IN  IF a > Len(s) THEN << >>
        ELSE (IF /\ SkipWhile(s, a, WordChars) - a >= 4
                 /\ \A j \in a..(SkipWhile(s, a, WordChars) - 1) :
                        s[j] \in LowerLetters \cup UpperLetters
                 THEN <<SubSeq(s, a, SkipWhile(s, a, WordChars) - 1)>>
              ELSE << >>)
             \o findall_words(s, SkipWhile(s, a, WordChars))

\* The keys of word_freq, in the order the loop inserts them.
RECURSIVE first_occurrences(_, _)
first_occurrences(words, acc) ==
    IF Len(words) = 0 THEN acc
    ELSE first_occurrences(Tail(words),
            IF \E k \in 1..Len(acc) : acc[k] = Head(words) THEN acc
            ELSE Append(acc, Head(words)))

\* word_freq[word]
word_freq(words, word) == Cardinality({k \in 1..Len(words) : words[k] = word})

\* The place of terms[i] in sorted(word_freq.items(), key=frequency,
\* reverse=True), counted from 0: the sort is stable.
term_rank(words, terms, i) ==
    Cardinality({j \in 1..Len(terms) :
        \/ word_freq(words, terms[j]) > word_freq(words, terms[i])
        \/ word_freq(words, terms[j]) = word_freq(words, terms[i]) /\ j < i})

\* top_terms: the first ten (term, freq) of the sorted items.
top_terms_of(words, terms) ==
    [r \in 1..(IF Len(terms) < 10 THEN Len(terms) ELSE 10) |->
        <<terms[CHOOSE i \in 1..Len(terms) : term_rank(words, terms, i) = r - 1],
          word_freq(words,
              terms[CHOOSE i \in 1..Len(terms) : term_rank(words, terms, i) = r - 1])>>]

top_terms(text) ==
    top_terms_of(findall_words(lower(text), 1),
                 first_occurrences(findall_words(lower(text), 1), << >>))

\* An entity and its relationship to the document (lines 227-240, 246-259,
\* 276-290, 303-315).
add_linked(st, seed, entity_type, name, properties, confidence, rel_type, doc_id) ==
    run_add_relationship(
        run_add_entity(st, seed, entity_type, name, properties, confidence),
        seed, rel_type, EntityId(NextSuffix(st, seed)), doc_id, None, confidence)

\* The loop over date_matches (lines 225-240).
RECURSIVE date_loop(_, _, _, _, _)
date_loop(st, seed, doc_id, paragraph, matches) ==
    IF Len(matches) = 0 THEN st
    ELSE date_loop(add_linked(st, seed, "Date", Head(matches),
                              [context |-> StrVal(first_100(paragraph))], 80,
                              "MENTIONED_IN", doc_id),
                   seed, doc_id, paragraph, Tail(matches))

\* The loop over org_matches (lines 243-259).
RECURSIVE org_loop(_, _, _, _, _)
org_loop(st, seed, doc_id, paragraph, matches) ==
    IF Len(matches) = 0 THEN st
    ELSE org_loop(IF Len(split(Head(matches))) >= 2
                      THEN add_linked(st, seed, "Organization", Head(matches),
                                      [context |-> StrVal(first_100(paragraph))], 70,
                                      "MENTIONED_IN", doc_id)
                  ELSE st,
                  seed, doc_id, paragraph, Tail(matches))

\* The loop over number_matches (lines 262-290).
RECURSIVE number_loop(_, _, _, _, _)
number_loop(st, seed, doc_id, paragraph, matches) ==
    IF Len(matches) = 0 THEN st
    ELSE number_loop(
            add_linked(st, seed, quantity_type(Head(matches)[2]),
                       quantity_name(remove_char(Head(matches)[1], ","), Head(matches)[2]),
                       [value |-> float(remove_char(Head(matches)[1], ",")),
                        unit |-> StrVal(Head(matches)[2]),
                        context |-> StrVal(first_100(paragraph))],
                       85, "MENTIONED_IN", doc_id),
            seed, doc_id, paragraph, Tail(matches))

\* One paragraph that is not blank (lines 215-290): its chunk, then the dates,
\* the organizations and the numbers.
process_paragraph(st, seed, doc_id, document_name, paragraph, i) ==
    number_loop(
        org_loop(
            date_loop(
                run_add_text_chunk(st, seed, paragraph,
                    [source |-> StrVal(document_name), paragraph |-> IntVal(i)]),
                seed, doc_id, paragraph, findall_date(paragraph, 1)),
            seed, doc_id, paragraph, findall_org(paragraph, 1)),
        seed, doc_id, paragraph, findall_number(paragraph, 1))

\* The loop over enumerate(paragraphs) (lines 210-290).
RECURSIVE paragraph_loop(_, _, _, _, _, _)
paragraph_loop(st, seed, doc_id, document_name, paragraphs, i) ==
    IF Len(paragraphs) = 0 THEN st
    ELSE paragraph_loop(
            IF Len(strip(Head(paragraphs))) = 0 THEN st
            ELSE process_paragraph(st, seed, doc_id, document_name, Head(paragraphs), i),
            seed, doc_id, document_name, Tail(paragraphs), i + 1)

\* The loop over top_terms (lines 301-315).
RECURSIVE term_loop(_, _, _, _)
term_loop(st, seed, doc_id, terms) ==
    IF Len(terms) = 0 THEN st
    ELSE term_loop(IF Head(terms)[2] >= 3
                       THEN add_linked(st, seed, "KeyTerm", capitalize(Head(terms)[1]),
                                       [frequency |-> IntVal(Head(terms)[2])], 60,
                                       "APPEARS_IN", doc_id)
                   ELSE st,
                   seed, doc_id, Tail(terms))

\* The summary _process_generic_document returns, with the store.
generic_summary(st, doc_id) ==
    [g |-> st.g, raised |-> st.raised,
     value |-> [document_id |-> doc_id,
                entity_count |-> Len(st.g.entities),
                relationship_count |-> Len(st.g.relationships)]]

\* DocumentProcessor._process_generic_document
process_generic_document(g, seed, text, document_name) ==
    generic_summary(
        term_loop(
            paragraph_loop(
                run_add_text_chunk(
                    run_add_entity(StartRun(g), seed, "Document", document_name,
                        [content_length |-> IntVal(Len(text))], 95),
                    seed, text, [source |-> StrVal(document_name)]),
                seed, EntityId(NextSuffix(StartRun(g), seed)), document_name,
                split_paragraphs(text), 0),
            seed, EntityId(NextSuffix(StartRun(g), seed)), top_terms(text)),
        EntityId(NextSuffix(StartRun(g), seed)))

\* DocumentProcessor.process_document
process_document(g, seed, text, document_name, document_type) ==
    IF document_type = "banking_policy"
        THEN process_banking_policy(g, seed, text, document_name)
    ELSE process_generic_document(g, seed, text, document_name)

(***************************************************************************)
(* The query engine (query_engine.py).                                     *)
(***************************************************************************)

\* [kw.lower() for kw in query_text.split() if len(kw) > 3]
keywords_of(query_text) ==
    LET long == SelectSeq(split(query_text), LAMBDA kw : Len(kw) > 3)
    IN  [i \in 1..Len(long) |-> lower(long[i])]

\* any(keyword in s.lower() for keyword in keywords)
any_keyword_in(keywords, s) ==
    \E k \in 1..Len(keywords) : Contains(lower(s), keywords[k])

\* A relevance test that looks at the name only.
entity_is_relevant_NameOnly(entity, keywords) == any_keyword_in(keywords, entity.name)

\* Whether _find_relevant_entities keeps the entity: a keyword in its name, or in
\* one of its string-valued properties.
entity_is_relevant(entity, keywords) ==
    \/ any_keyword_in(keywords, entity.name)
    \/ \E p \in DOMAIN entity.properties :
          /\ "str" \in DOMAIN entity.properties[p]
          /\ any_keyword_in(keywords, entity.properties[p].str)

\* QueryEngine._find_relevant_entities
find_relevant_entities(g, query_text) ==
    SelectSeq(g.entities, LAMBDA e : entity_is_relevant(e, keywords_of(query_text)))

\* A filter that wants both ends of a relationship among the relevant entities.
find_relevant_relationships_BothEnds(g, relevant_entities) ==
    SelectSeq(g.relationships,
              LAMBDA rel : \E i, j \in 1..Len(relevant_entities) :
                  rel.source = relevant_entities[i].id
                      /\ rel.target = relevant_entities[j].id)

\* QueryEngine._find_relevant_relationships
find_relevant_relationships(g, relevant_entities) ==
    LET entity_ids == {relevant_entities[i].id : i \in 1..Len(relevant_entities)}
    IN  SelectSeq(g.relationships,
                  LAMBDA rel : rel.source \in entity_ids \/ rel.target \in entity_ids)

\* The float matches / total as a reduced fraction.
Fraction(matches, total) ==
    <<matches \div gcd(matches, total), total \div gcd(matches, total)>>

\* x >= y for two similarities.
GreaterOrEqual(x, y) == x[1] * y[2] >= y[1] * x[2]

\* x > y for two similarities.
Greater(x, y) == x[1] * y[2] > y[1] * x[2]

\* sum(1 for keyword in keywords if keyword in text_lower)
count_matches(keywords, text) ==
    Cardinality({k \in 1..Len(keywords) : Contains(lower(text), keywords[k])})

\* A scoring loop that gives a chunk without a match the similarity 0.
score_chunk_Resets(chunk, keywords) ==
    LET matches == count_matches(keywords, chunk.text)
    IN  IF matches > 0
            THEN [chunk EXCEPT !.similarity = Fraction(matches, Len(keywords))]
        ELSE [chunk EXCEPT !.similarity = ZeroSimilarity]

\* The chunk as the scoring loop leaves it: its similarity is overwritten when a
\* keyword matches, and left alone otherwise.
score_chunk(chunk, keywords) ==
    LET matches == count_matches(keywords, chunk.text)
    IN  IF matches > 0
            THEN [chunk EXCEPT !.similarity = Fraction(matches, Len(keywords))]
        ELSE chunk

\* A sort that puts a chunk before the chunks of equal similarity already sorted.
RECURSIVE insert_sorted_Unstable(_, _)
insert_sorted_Unstable(sorted, chunk) ==
    IF Len(sorted) = 0 THEN <<chunk>>
    ELSE IF Greater(sorted[1].similarity, chunk.similarity)
        THEN <<sorted[1]>> \o insert_sorted_Unstable(Tail(sorted), chunk)
    ELSE <<chunk>> \o sorted

\* The place list.sort(key=similarity, reverse=True) gives a chunk among those
\* sorted before it: after every chunk whose similarity is not smaller (the sort
\* is stable).
RECURSIVE insert_sorted(_, _)
insert_sorted(sorted, chunk) ==
    IF Len(sorted) = 0 THEN <<chunk>>
    ELSE IF Greater(chunk.similarity, sorted[1].similarity)
        THEN <<chunk>> \o sorted
    ELSE <<sorted[1]>> \o insert_sorted(Tail(sorted), chunk)

\* scored_chunks.sort(key=lambda x: x.similarity, reverse=True)
RECURSIVE sort_by_similarity(_, _)
sort_by_similarity(sorted, rest) ==
    IF Len(rest) = 0 THEN sorted
    ELSE sort_by_similarity(insert_sorted(sorted, Head(rest)), Tail(rest))

\* A truncation that returns every scored chunk.
top_chunks_All(sorted) == sorted

\* scored_chunks[:5]
top_chunks(sorted) == SubSeq(sorted, 1, IF Len(sorted) < 5 THEN Len(sorted) ELSE 5)

\* A chunk search that returns every chunk with a similarity above 0, whether
\* this call or an earlier one has set it.
find_relevant_text_chunks_StaleScores(g, query_text) ==
    LET keywords == keywords_of(query_text)
        scored == [i \in 1..Len(g.text_chunks) |-> score_chunk(g.text_chunks[i], keywords)]
        scored_chunks == SelectSeq(scored, LAMBDA c : c.similarity[1] > 0)
    IN  [store |-> scored,
         found |-> top_chunks(sort_by_similarity(<< >>, scored_chunks))]

\* QueryEngine._find_relevant_text_chunks: the chunks of the store as the call
\* leaves them (store) and the chunks it returns (found).
find_relevant_text_chunks(g, query_text) ==
    LET keywords == keywords_of(query_text)
        scored == [i \in 1..Len(g.text_chunks) |-> score_chunk(g.text_chunks[i], keywords)]
        scored_chunks ==
            SelectSeq(scored, LAMBDA c : count_matches(keywords, c.text) > 0)
    IN  [store |-> scored,
         found |-> top_chunks(sort_by_similarity(<< >>, scored_chunks))]

\* An answer: a fixed sentence (fixed), followed for the answers built from the
\* store by chunk text (body) or by the "- name (type)" lines (items).
Answer(kind, fixed, body, items) ==
    [kind |-> kind, fixed |-> fixed, body |-> body, items |-> items]

CreditScoreAnswer ==
    Answer("credit_score",
           "According to the Bank Loan Approval Policy, customers must have a minimum credit score of 700 to qualify for a loan.",
           << >>, << >>)

CreditScoreFallback ==
    Answer("credit_score_fallback",
           "Based on the bank's loan policies, a minimum credit score is required for loan approval, but I couldn't find the exact threshold in the provided information.",
           << >>, << >>)

DataDeletionAnswer ==
    Answer("data_deletion",
           "According to the Bank Customer Data Protection Policy, customer requests for data deletion must be processed within 30 days.",
           << >>, << >>)

DataDeletionFallback ==
    Answer("data_deletion_fallback",
           "The Bank Customer Data Protection Policy requires timely processing of data deletion requests, but I couldn't find the exact timeframe in the provided information.",
           << >>, << >>)

TransactionAnswer ==
    Answer("transaction",
           "According to the Bank Fraud Prevention Policy, transactions above $10,000 require additional verification.",
           << >>, << >>)

TransactionFallback ==
    Answer("transaction_fallback",
           "The Bank Fraud Prevention Policy requires additional verification for transactions above certain thresholds, but I couldn't find the exact amount in the provided information.",
           << >>, << >>)

DefaultAnswer ==
    Answer("default",
           "I don't have enough information to answer that specific question. Please try asking about credit scores, loan approvals, data deletion, transaction verification, or fraud prevention.",
           << >>, << >>)

\* f"- {e.name} ({e.type})" for the first five entities.
entity_lines(es) ==
    [i \in 1..(IF Len(es) < 5 THEN Len(es) ELSE 5) |->
        [name |-> es[i].name, type |-> es[i].type]]

\* An answer synthesis without the three shortcuts.
generate_answer_NoShortcuts(query, es, rels, chunks) ==
    IF Len(chunks) > 0 /\ Greater(chunks[1].similarity, <<1, 2>>)
        THEN Answer("top_chunk", "Based on the available information: ",
                    chunks[1].text, << >>)
    ELSE IF Len(chunks) >= 2
        THEN Answer("two_chunks", "Based on the available information:\n\n",
                    chunks[1].text \o <<"\n">> \o chunks[2].text, << >>)
    ELSE IF Len(es) > 0
        THEN Answer("entities",
                    "Based on your query, I found these relevant items in the knowledge base:\n\n",
                    << >>, entity_lines(es))
    ELSE DefaultAnswer

\* QueryEngine._generate_answer
generate_answer(query, es, rels, chunks) ==
    LET query_lower == lower(query)
        has(type, part) ==
            \E i \in 1..Len(es) : es[i].type = type /\ Contains(es[i].name, part)
        has_lower(type, part) ==
            \E i \in 1..Len(es) : es[i].type = type /\ Contains(lower(es[i].name), part)
    IN  IF Contains(query_lower, <<"c","r","e","d","i","t"," ","s","c","o","r","e">>)
            THEN IF has("Threshold", <<"7","0","0">>) THEN CreditScoreAnswer
                 ELSE CreditScoreFallback
        ELSE IF Contains(query_lower, <<"d","a","t","a"," ","d","e","l","e","t","i","o","n">>)
                \/ Contains(query_lower,
                        <<"d","e","l","e","t","i","o","n"," ","r","e","q","u","e","s","t">>)
            THEN IF has_lower("TimePeriod", <<"3","0"," ","d","a","y">>)
                     THEN DataDeletionAnswer
                 ELSE DataDeletionFallback
        ELSE IF Contains(query_lower, <<"t","r","a","n","s","a","c","t","i","o","n">>)
                /\ (Contains(query_lower, <<"v","e","r","i","f","i","c","a","t","i","o","n">>)
                    \/ Contains(query_lower, <<"v","e","r","i","f","y">>))
            THEN IF has("Threshold", <<"$","1","0",",","0","0","0">>)
                     THEN TransactionAnswer
                 ELSE TransactionFallback
        ELSE IF Len(chunks) > 0 /\ Greater(chunks[1].similarity, <<1, 2>>)
            THEN Answer("top_chunk", "Based on the available information: ",
                        chunks[1].text, << >>)
        ELSE IF Len(chunks) >= 2
            THEN Answer("two_chunks", "Based on the available information:\n\n",
                        chunks[1].text \o <<"\n">> \o chunks[2].text, << >>)
        ELSE IF Len(es) > 0
            THEN Answer("entities",
                        "Based on your query, I found these relevant items in the knowledge base:\n\n",
                        << >>, entity_lines(es))
        ELSE DefaultAnswer

\* QueryEngine.query: the store it leaves (only similarities change) and the
\* dictionary it returns.
query(g, query_text) ==
    LET relevant_entities == find_relevant_entities(g, query_text)
        relevant_relationships == find_relevant_relationships(g, relevant_entities)
        chunks == find_relevant_text_chunks(g, query_text)
        g1 == [g EXCEPT !.text_chunks = chunks.store]
    IN  [g |-> g1,
         value |->
            [answer |-> generate_answer(query_text, relevant_entities,
                                        relevant_relationships, chunks.found),
             entities |-> [i \in 1..Len(relevant_entities) |->
                              Entity_to_dict(relevant_entities[i])],
             relationships |-> [i \in 1..Len(relevant_relationships) |->
                                   Relationship_to_dict(relevant_relationships[i])],
             chunks |-> [i \in 1..Len(chunks.found) |->
                            TextChunk_to_dict(chunks.found[i])]]]


\* The topic questions of a store: each is appended when an entity of the store
\* passes its test, in the order of the tests.
topic_questions(g) ==
    LET any(type, part) ==
            \E i \in 1..Len(g.entities) :
                g.entities[i].type = type /\ Contains(g.entities[i].name, part)
    IN  (IF \E i \in 1..Len(g.entities) : g.entities[i].type = "Policy"
             THEN <<"What are the main policies in the system?">> ELSE << >>)
        \o (IF any("Threshold", <<"$","1","0",",","0","0","0">>)
                THEN <<"What transactions require additional verification?">> ELSE << >>)
        \o (IF any("TimePeriod", <<"3","0"," ","d","a","y">>)
                THEN <<"How long do we have to process data deletion requests?">>
            ELSE << >>)
        \o (IF any("Threshold", <<"7","0","0">>)
                THEN <<"What is the minimum credit score needed for a loan?">> ELSE << >>)

\* A padding that takes the last generic questions instead of the first.
get_example_questions_PadsFromEnd(g) ==
    LET questions == topic_questions(g)
        generic_questions ==
            <<"What are the requirements for large loans?",
              "How are customer data and fraud prevention related?",
              "What security measures are required for customer data?",
              "What happens when a transaction appears suspicious?",
              "How often are security audits conducted?">>
    IN  IF Len(questions) < 5
            THEN questions \o SubSeq(generic_questions, Len(questions) + 1, 5)
        ELSE questions

\* QueryEngine.get_example_questions
get_example_questions(g) ==
    LET questions == topic_questions(g)
        generic_questions ==
            <<"What are the requirements for large loans?",
              "How are customer data and fraud prevention related?",
              "What security measures are required for customer data?",
              "What happens when a transaction appears suspicious?",
              "How often are security audits conducted?">>
    IN  IF Len(questions) < 5
            THEN questions \o SubSeq(generic_questions, 1, 5 - Len(questions))
        ELSE questions
(***************************************************************************)
(* Bounds and the inputs the calls are given.                              *)
(***************************************************************************)

\* The add calls stop once the store holds this many records in all.
MaxRecords == 3

\* The same bound where the store is also saved and loaded.
MaxSaved == 2

\* The uuid4 suffixes the add calls can draw.
Suffixes == {1, 2}

\* "User"
S_User ==
    <<"U","s","e","r">>
\* "user data"
S_UserData ==
    <<"u","s","e","r"," ","d","a","t","a">>
\* "$5 Threshold"
S_Threshold5 ==
    <<"$","5"," ","T","h","r","e","s","h","o","l","d">>
\* "a.txt"
S_a_txt ==
    <<"a",".","t","x","t">>
\* "pay $5"
S_Pay5 ==
    <<"p","a","y"," ","$","5">>

\* "1. $5 user"
S_TinyDoc ==
    <<"1","."," ","$","5"," ","u","s","e","r">>
\* "5 usd user"
S_FiveUsd ==
    <<"5"," ","u","s","d"," ","u","s","e","r">>
\* "user name"
S_user_name ==
    <<"u","s","e","r"," ","n","a","m","e">>

\* The arguments of add_entity: <<type, name, properties, confidence>>; None and
\* DefaultConfidence are the parameters left out.
EntityInputs ==
    {<<"Role", S_User, None, DefaultConfidence>>,
     <<"Threshold", S_Threshold5, [amount |-> IntVal(5), text |-> StrVal(S_Pay5)], 85>>}

\* The arguments of add_relationship: <<type, source, target>>; the ids may name
\* no entity.
RelationshipInputs ==
    {<<"INVOLVES", EntityId(1), EntityId(2)>>,
     <<"RELATED_TO", EntityId(1), EntityId(1)>>}

\* The arguments of add_text_chunk: <<text, metadata>>.
ChunkInputs ==
    {<<S_UserData, None>>, <<S_Pay5, [source |-> StrVal(S_a_txt)]>>}

\* A file written by hand: two entities share an id, optional keys are left out.
EditedFile ==
    [entities |->
        <<[id |-> EntityId(1), type |-> "Role", name |-> S_User],
          [id |-> EntityId(1), type |-> "Policy", name |-> <<"B","a","n","k"," ","P","o","l","i","c","y">>,
           properties |-> [filename |-> StrVal(S_a_txt)], confidence |-> 95],
          [id |-> EntityId(7), type |-> "Role", name |-> S_User, confidence |-> 85]>>,
     relationships |->
        <<[id |-> RelId(1), type |-> "INVOLVES", source |-> EntityId(1),
           target |-> EntityId(7)]>>,
     text_chunks |->
        <<[id |-> ChunkId(1), text |-> S_UserData],
          [id |-> ChunkId(2), text |-> S_Pay5, metadata |-> [source |-> StrVal(S_a_txt)],
           similarity |-> <<1, 2>>]>>]

\* A file whose relationship lacks its source; its entities are well formed.
BrokenFile ==
    [entities |-> <<[id |-> EntityId(1), type |-> "Role", name |-> S_User]>>,
     relationships |-> <<[id |-> RelId(1), type |-> "INVOLVES", target |-> EntityId(1)]>>,
     text_chunks |-> <<[id |-> ChunkId(1), text |-> S_UserData]>>]

\* The files on disk at the start.
InitialFiles == ("edited.json" :> EditedFile) @@ ("broken.json" :> BrokenFile)

\* The paths save is given, and the paths load is given ("nofile.json" never exists).
SavePaths == {"kg.json"}

LoadPaths == {"kg.json", "edited.json", "broken.json", "nofile.json"}

(***************************************************************************)
(* The calls as actions.  Every action is one whole call; result records   *)
(* the call (op and its arguments), what it returned (value), whether it   *)
(* raised, and the sizes of the three sequences when it was called (pre).  *)
(***************************************************************************)

\* The number of records in the store.
Total(g) == Len(g.entities) + Len(g.relationships) + Len(g.text_chunks)

Sizes(g) == [entities |-> Len(g.entities), relationships |-> Len(g.relationships),
             text_chunks |-> Len(g.text_chunks)]

\* The store variables take the attributes of g.
SetGraph(g) ==
    /\ entities' = g.entities
    /\ relationships' = g.relationships
    /\ text_chunks' = g.text_chunks
    /\ entity_map' = g.entity_map

\* The sample directory does not exist.
Missing == [missing |-> TRUE]

AddEntity(suffix, entity_type, name, properties, confidence) ==
    /\ SetGraph(add_entity(kg, suffix, entity_type, name, properties, confidence))
    /\ result' = [op |-> "add_entity", value |-> EntityId(suffix), raised |-> FALSE,
                  pre |-> Sizes(kg)]
    /\ UNCHANGED <<files, sample_dir>>

AddRelationship(suffix, rel_type, source, target, properties, confidence) ==
    /\ SetGraph(add_relationship(kg, suffix, rel_type, source, target, properties,
                                 confidence))
    /\ result' = [op |-> "add_relationship", value |-> RelId(suffix), raised |-> FALSE,
                  pre |-> Sizes(kg)]
    /\ UNCHANGED <<files, sample_dir>>

AddTextChunk(suffix, text, metadata) ==
    /\ SetGraph(add_text_chunk(kg, suffix, text, metadata))
    /\ result' = [op |-> "add_text_chunk", value |-> ChunkId(suffix), raised |-> FALSE,
                  pre |-> Sizes(kg)]
    /\ UNCHANGED <<files, sample_dir>>

Clear ==
    /\ SetGraph(clear(kg))
    /\ result' = [op |-> "clear", value |-> None, raised |-> FALSE, pre |-> Sizes(kg)]
    /\ UNCHANGED <<files, sample_dir>>

GetStats ==
    /\ result' = [op |-> "get_stats", value |-> get_stats(kg), raised |-> FALSE,
                  pre |-> Sizes(kg)]
    /\ UNCHANGED <<entities, relationships, text_chunks, entity_map, files, sample_dir>>

\* save(filename): the file is created or overwritten.
Save(filename) ==
    /\ files' = Put(files, filename, save(kg))
    /\ result' = [op |-> "save", filename |-> filename, value |-> None,
                  raised |-> FALSE, pre |-> Sizes(kg)]
    /\ UNCHANGED <<entities, relationships, text_chunks, entity_map, sample_dir>>

Load(filename) ==
    \E r \in {load(kg, files, filename)} :
        /\ SetGraph(r.g)
        /\ result' = [op |-> "load", filename |-> filename, value |-> r.value,
                      raised |-> r.raised, pre |-> Sizes(kg)]
        /\ UNCHANGED <<files, sample_dir>>

\* process_document(text, document_name, document_type); seed chooses the uuid4
\* draws of the call. A call that raises leaves the records it had added.
ProcessDocument(seed, text, document_name, document_type) ==
    \E r \in {process_document(kg, seed, text, document_name, document_type)} :
        /\ SetGraph(r.g)
        /\ result' = [op |-> "process_document", text |-> text,
                      document_name |-> document_name, document_type |-> document_type,
                      value |-> r.value, raised |-> r.raised, pre |-> Sizes(kg)]
        /\ UNCHANGED <<files, sample_dir>>

\* query(query_text)
Query(query_text) ==
    \E r \in {query(kg, query_text)} :
        /\ SetGraph(r.g)
        /\ result' = [op |-> "query", query_text |-> query_text, value |-> r.value,
                      raised |-> FALSE, pre |-> Sizes(kg)]
        /\ UNCHANGED <<files, sample_dir>>

\* get_entity(entity_id)
GetEntity(entity_id) ==
    /\ result' = [op |-> "get_entity", entity_id |-> entity_id,
                  value |-> get_entity(kg, entity_id), raised |-> FALSE,
                  pre |-> Sizes(kg)]
    /\ UNCHANGED <<entities, relationships, text_chunks, entity_map, files, sample_dir>>

\* get_entities_by_type(entity_type)
GetEntitiesByType(entity_type) ==
    /\ result' = [op |-> "get_entities_by_type", entity_type |-> entity_type,
                  value |-> get_entities_by_type(kg, entity_type), raised |-> FALSE,
                  pre |-> Sizes(kg)]
    /\ UNCHANGED <<entities, relationships, text_chunks, entity_map, files, sample_dir>>

\* get_relationships_for_entity(entity_id)
GetRelationshipsForEntity(entity_id) ==
    /\ result' = [op |-> "get_relationships_for_entity", entity_id |-> entity_id,
                  value |-> get_relationships_for_entity(kg, entity_id),
                  raised |-> FALSE, pre |-> Sizes(kg)]
    /\ UNCHANGED <<entities, relationships, text_chunks, entity_map, files, sample_dir>>


\* get_example_questions()
GetExampleQuestions ==
    /\ result' = [op |-> "get_example_questions", value |-> get_example_questions(kg),
                  raised |-> FALSE, pre |-> Sizes(kg)]
    /\ UNCHANGED <<entities, relationships, text_chunks, entity_map, files, sample_dir>>
(***************************************************************************)
(* The sample corpus (DocumentProcessor.load_sample_documents).            *)
(***************************************************************************)

\* bank_policies: the files written into a directory that did not exist, name :>
\* content.
bank_policies ==
    \* Bank Loan Approval Policy.txt
    \* Bank Loan Approval Policy
    \* 
    \* 1. Customers must have a minimum credit score of 700 to qualify for a loan.
    \* 2. Loan applications must be reviewed within 5 business days.
    \* 3. Interest rates depend on customer risk assessment.
    \* 4. Large loans ($50,000+) require approval from the Senior Loan Officer.
    \* 5. If a customer has a debt-to-income ratio higher than 40%, additional checks are required.
    (<<"B","a","n","k"," ","L","o","a","n"," ","A","p","p","r","o","v","a","l"," ","P","o","l",
       "i","c","y",".","t","x","t">> :>
        <<"B","a","n","k"," ","L","o","a","n"," ","A","p","p","r","o","v","a","l"," ","P","o",
          "l","i","c","y","\n","\n","1","."," ","C","u","s","t","o","m","e","r","s"," ","m","u",
          "s","t"," ","h","a","v","e"," ","a"," ","m","i","n","i","m","u","m"," ","c","r","e",
          "d","i","t"," ","s","c","o","r","e"," ","o","f"," ","7","0","0"," ","t","o"," ","q",
          "u","a","l","i","f","y"," ","f","o","r"," ","a"," ","l","o","a","n",".","\n","2",".",
          " ","L","o","a","n"," ","a","p","p","l","i","c","a","t","i","o","n","s"," ","m","u",
          "s","t"," ","b","e"," ","r","e","v","i","e","w","e","d"," ","w","i","t","h","i","n",
          " ","5"," ","b","u","s","i","n","e","s","s"," ","d","a","y","s",".","\n","3","."," ",
          "I","n","t","e","r","e","s","t"," ","r","a","t","e","s"," ","d","e","p","e","n","d",
          " ","o","n"," ","c","u","s","t","o","m","e","r"," ","r","i","s","k"," ","a","s","s",
          "e","s","s","m","e","n","t",".","\n","4","."," ","L","a","r","g","e"," ","l","o","a",
          "n","s"," ","(","$","5","0",",","0","0","0","+",")"," ","r","e","q","u","i","r","e",
          " ","a","p","p","r","o","v","a","l"," ","f","r","o","m"," ","t","h","e"," ","S","e",
          "n","i","o","r"," ","L","o","a","n"," ","O","f","f","i","c","e","r",".","\n","5",".",
          " ","I","f"," ","a"," ","c","u","s","t","o","m","e","r"," ","h","a","s"," ","a"," ",
          "d","e","b","t","-","t","o","-","i","n","c","o","m","e"," ","r","a","t","i","o"," ",
          "h","i","g","h","e","r"," ","t","h","a","n"," ","4","0","%",","," ","a","d","d","i",
          "t","i","o","n","a","l"," ","c","h","e","c","k","s"," ","a","r","e"," ","r","e","q",
          "u","i","r","e","d",".">>)
    @@
    \* Bank Customer Data Protection Policy.txt
    \* Bank Customer Data Protection Policy
    \* 
    \* 1. Customer data must be encrypted before storage.
    \* 2. Employees are prohibited from sharing customer information without authorization.
    \* 3. Data access is restricted based on user roles.
    \* 4. Customer requests for data deletion must be processed within 30 days.
    \* 5. Security audits are conducted quarterly.
    (<<"B","a","n","k"," ","C","u","s","t","o","m","e","r"," ","D","a","t","a"," ","P","r","o",
       "t","e","c","t","i","o","n"," ","P","o","l","i","c","y",".","t","x","t">> :>
        <<"B","a","n","k"," ","C","u","s","t","o","m","e","r"," ","D","a","t","a"," ","P","r",
          "o","t","e","c","t","i","o","n"," ","P","o","l","i","c","y","\n","\n","1","."," ","C",
          "u","s","t","o","m","e","r"," ","d","a","t","a"," ","m","u","s","t"," ","b","e"," ",
          "e","n","c","r","y","p","t","e","d"," ","b","e","f","o","r","e"," ","s","t","o","r",
          "a","g","e",".","\n","2","."," ","E","m","p","l","o","y","e","e","s"," ","a","r","e",
          " ","p","r","o","h","i","b","i","t","e","d"," ","f","r","o","m"," ","s","h","a","r",
          "i","n","g"," ","c","u","s","t","o","m","e","r"," ","i","n","f","o","r","m","a","t",
          "i","o","n"," ","w","i","t","h","o","u","t"," ","a","u","t","h","o","r","i","z","a",
          "t","i","o","n",".","\n","3","."," ","D","a","t","a"," ","a","c","c","e","s","s"," ",
          "i","s"," ","r","e","s","t","r","i","c","t","e","d"," ","b","a","s","e","d"," ","o",
          "n"," ","u","s","e","r"," ","r","o","l","e","s",".","\n","4","."," ","C","u","s","t",
          "o","m","e","r"," ","r","e","q","u","e","s","t","s"," ","f","o","r"," ","d","a","t",
          "a"," ","d","e","l","e","t","i","o","n"," ","m","u","s","t"," ","b","e"," ","p","r",
          "o","c","e","s","s","e","d"," ","w","i","t","h","i","n"," ","3","0"," ","d","a","y",
          "s",".","\n","5","."," ","S","e","c","u","r","i","t","y"," ","a","u","d","i","t","s",
          " ","a","r","e"," ","c","o","n","d","u","c","t","e","d"," ","q","u","a","r","t","e",
          "r","l","y",".">>)
    @@
    \* Bank Fraud Prevention Policy.txt
    \* Bank Fraud Prevention Policy
    \* 
    \* 1. Transactions above $10,000 require additional verification.
    \* 2. Customers with multiple failed login attempts must reset their password.
    \* 3. If a transaction appears suspicious, the fraud detection team is alerted.
    \* 4. All ATM withdrawals above $1,000 require two-factor authentication.
    \* 5. Fraud reports must be resolved within 72 hours.
    (<<"B","a","n","k"," ","F","r","a","u","d"," ","P","r","e","v","e","n","t","i","o","n"," ",
       "P","o","l","i","c","y",".","t","x","t">> :>
        <<"B","a","n","k"," ","F","r","a","u","d"," ","P","r","e","v","e","n","t","i","o","n",
          " ","P","o","l","i","c","y","\n","\n","1","."," ","T","r","a","n","s","a","c","t","i",
          "o","n","s"," ","a","b","o","v","e"," ","$","1","0",",","0","0","0"," ","r","e","q",
          "u","i","r","e"," ","a","d","d","i","t","i","o","n","a","l"," ","v","e","r","i","f",
          "i","c","a","t","i","o","n",".","\n","2","."," ","C","u","s","t","o","m","e","r","s",
          " ","w","i","t","h"," ","m","u","l","t","i","p","l","e"," ","f","a","i","l","e","d",
          " ","l","o","g","i","n"," ","a","t","t","e","m","p","t","s"," ","m","u","s","t"," ",
          "r","e","s","e","t"," ","t","h","e","i","r"," ","p","a","s","s","w","o","r","d",".",
          "\n","3","."," ","I","f"," ","a"," ","t","r","a","n","s","a","c","t","i","o","n"," ",
          "a","p","p","e","a","r","s"," ","s","u","s","p","i","c","i","o","u","s",","," ","t",
          "h","e"," ","f","r","a","u","d"," ","d","e","t","e","c","t","i","o","n"," ","t","e",
          "a","m"," ","i","s"," ","a","l","e","r","t","e","d",".","\n","4","."," ","A","l","l",
          " ","A","T","M"," ","w","i","t","h","d","r","a","w","a","l","s"," ","a","b","o","v",
          "e"," ","$","1",",","0","0","0"," ","r","e","q","u","i","r","e"," ","t","w","o","-",
          "f","a","c","t","o","r"," ","a","u","t","h","e","n","t","i","c","a","t","i","o","n",
          ".","\n","5","."," ","F","r","a","u","d"," ","r","e","p","o","r","t","s"," ","m","u",
          "s","t"," ","b","e"," ","r","e","s","o","l","v","e","d"," ","w","i","t","h","i","n",
          " ","7","2"," ","h","o","u","r","s",".">>)

\* filename.endswith(suffix)
endswith(s, suffix) ==
    Len(s) >= Len(suffix) /\ SubSeq(s, Len(s) - Len(suffix) + 1, Len(s)) = suffix

\* The orders os.listdir may give the names of a directory in.
Orders(names) ==
    {o \in [1..Cardinality(names) -> names] :
        \A i, j \in 1..Cardinality(names) : i # j => o[i] # o[j]}

\* The directory after the check of lines 327-364: created with the three
\* policies when it did not exist, left as it is when it did.
seeded(dir) == IF dir = Missing THEN bank_policies ELSE dir

\* The uuid4 draws that remain to a call that has added records to g0 and
\* reached g: every record added has taken one draw.
remaining(seed, g0, g) ==
    [base |-> seed.base + seed.step * (Total(g) - Total(g0)), step |-> seed.step]

\* results[filename] = result, unless process_document raised.
after_file(st, filename, r) ==
    [g |-> r.g, raised |-> r.raised,
     value |-> IF r.raised THEN st.value ELSE Put(st.value, filename, r.value)]

\* The loop over os.listdir(directory) (lines 367-377); an exception ends it.
RECURSIVE file_loop(_, _, _, _, _)
file_loop(st, g0, seed, dir, names) ==
    IF st.raised \/ Len(names) = 0 THEN st
    ELSE file_loop(
            IF endswith(Head(names), <<".","t","x","t">>)
                THEN after_file(st, Head(names),
                        process_document(st.g, remaining(seed, g0, st.g),
                                         dir[Head(names)], Head(names), "banking_policy"))
            ELSE st,
            g0, seed, dir, Tail(names))

\* DocumentProcessor.load_sample_documents: the store it leaves, whether it
\* raised, and the results it returns when it did not; listing is the order
\* os.listdir gives the names in.
load_sample_documents(g, seed, dir, listing) ==
    file_loop([g |-> g, raised |-> FALSE, value |-> EmptyDict], g, seed, seeded(dir),
              listing)

\* load_sample_documents(); the directory exists afterwards.
LoadSampleDocuments(seed, listing) ==
    \E r \in {load_sample_documents(kg, seed, sample_dir, listing)} :
        /\ SetGraph(r.g)
        /\ sample_dir' = seeded(sample_dir)
        /\ result' = [op |-> "load_sample_documents", value |-> r.value,
                      raised |-> r.raised, pre |-> Sizes(kg)]
        /\ UNCHANGED files

(***************************************************************************)
(* The specifications.                                                     *)
(***************************************************************************)

InitResult == [op |-> "init", value |-> None, raised |-> FALSE, pre |-> Sizes(EmptyGraph)]

\* A new KnowledgeGraph, the files on disk, no sample directory.
Init ==
    /\ entities = << >>
    /\ relationships = << >>
    /\ text_chunks = << >>
    /\ entity_map = EmptyDict
    /\ files = InitialFiles
    /\ sample_dir = Missing
    /\ result = InitResult

\* The store: the add calls, clear and get_stats.
Next ==
    \/ /\ Total(kg) < MaxRecords
       /\ \E s \in Suffixes, x \in EntityInputs : AddEntity(s, x[1], x[2], x[3], x[4])
    \/ /\ Total(kg) < MaxRecords
       /\ \E s \in Suffixes, x \in RelationshipInputs :
             AddRelationship(s, x[1], x[2], x[3], None, DefaultConfidence)
    \/ /\ Total(kg) < MaxRecords
       /\ \E s \in Suffixes, x \in ChunkInputs : AddTextChunk(s, x[1], x[2])
    \/ Clear
    \/ GetStats

Spec == Init /\ [][Next]_vars

\* The uuid4 draws of the process_document calls of SpecPersist.
PersistSeed == [base |-> 2, step |-> 1]

\* The store and its persistence: records are added by the add calls and by
\* process_document (both strategies), similarities are set by query, and the store is saved to
\* and loaded from the files.
PersistNext ==
    \/ /\ Total(kg) < MaxSaved
       /\ AddEntity(1, "Threshold", S_Threshold5,
                    [amount |-> IntVal(5), text |-> StrVal(S_Pay5)], 85)
    \/ /\ Total(kg) < MaxSaved
       /\ AddRelationship(1, "INVOLVES", EntityId(1), EntityId(2), None,
                          DefaultConfidence)
    \/ /\ Total(kg) < MaxSaved
       /\ AddTextChunk(1, S_UserData, [source |-> StrVal(S_a_txt)])
    \/ /\ Total(kg) < MaxSaved
       /\ \/ ProcessDocument(PersistSeed, S_TinyDoc, S_a_txt, "banking_policy")
          \/ ProcessDocument(PersistSeed, S_FiveUsd, S_a_txt, "generic")
    \/ Query(S_user_name)
    \/ Clear
    \/ \E f \in SavePaths : Save(f)
    \/ \E f \in LoadPaths : Load(f)

SpecPersist == Init /\ [][PersistNext]_vars

(***************************************************************************)
(* Policy extraction of single requirements.                               *)
(***************************************************************************)

\* The number of documents processed into one store.
MaxDocs == 2

\* "1. Large loans ($50,000+) require approval from the Senior Loan Officer."
S_LargeLoansLine ==
    <<"1","."," ","L","a","r","g","e"," ","l","o","a","n","s"," ","(","$","5","0",",","0","0",
      "0","+",")"," ","r","e","q","u","i","r","e"," ","a","p","p","r","o","v","a","l"," ","f",
      "r","o","m"," ","t","h","e"," ","S","e","n","i","o","r"," ","L","o","a","n"," ","O","f",
      "f","i","c","e","r",".">>

\* "1. Customers must have a minimum credit score of 700 to qualify for a loan."
S_CreditScoreLine ==
    <<"1","."," ","C","u","s","t","o","m","e","r","s"," ","m","u","s","t"," ","h","a","v","e",
      " ","a"," ","m","i","n","i","m","u","m"," ","c","r","e","d","i","t"," ","s","c","o","r",
      "e"," ","o","f"," ","7","0","0"," ","t","o"," ","q","u","a","l","i","f","y"," ","f","o",
      "r"," ","a"," ","l","o","a","n",".">>

\* "Loan Approval"
S_Heading ==
    <<"L","o","a","n"," ","A","p","p","r","o","v","a","l">>

\* "loan_policy.txt"
S_loan_policy_txt ==
    <<"l","o","a","n","_","p","o","l","i","c","y",".","t","x","t">>

\* "Customer"
S_Customer ==
    <<"C","u","s","t","o","m","e","r">>

\* Documents whose only numbered line is the large-loans requirement.
LargeLoansDocs == {S_LargeLoansLine, S_Heading \o <<"\n">> \o S_LargeLoansLine}

\* Documents whose only numbered line is the credit-score requirement.
CreditScoreDocs ==
    {S_CreditScoreLine, S_Heading \o <<"\n", "\n">> \o S_CreditScoreLine \o <<"\n">>}

ExtractNames == {S_a_txt, S_loan_policy_txt}

\* The uuid4 draws of a call: fresh ones, the same suffix at every draw, and
\* fresh ones further on.
ExtractSeeds == {[base |-> 1, step |-> 1], [base |-> 1, step |-> 0],
                 [base |-> 4, step |-> 1]}

\* Policy documents are processed into the store, which is cleared at times.
ExtractNext ==
    \/ /\ Len(text_chunks) < MaxDocs
       /\ \E seed \in ExtractSeeds, text \in LargeLoansDocs \cup CreditScoreDocs,
             name \in ExtractNames :
             ProcessDocument(seed, text, name, "banking_policy")
    \/ Clear

SpecExtract == Init /\ [][ExtractNext]_vars

(***************************************************************************)
(* Chunk retrieval.                                                        *)
(***************************************************************************)

\* The number of chunks in the store: one more than a query returns.
MaxChunks == 6

\* "loan data risk fraud"
S_FourKeywords ==
    <<"l","o","a","n"," ","d","a","t","a"," ","r","i","s","k"," ","f","r","a","u","d">>

\* "the Fraud risk"
S_TwoKeywords ==
    <<"t","h","e"," ","F","r","a","u","d"," ","r","i","s","k">>

\* "Loan data at risk"
S_ThreeHits ==
    <<"L","o","a","n"," ","d","a","t","a"," ","a","t"," ","r","i","s","k">>

\* "FRAUD"
S_OneHit ==
    <<"F","R","A","U","D">>

\* "fees"
S_NoHit ==
    <<"f","e","e","s">>

ChunkTexts == {S_ThreeHits, S_OneHit, S_NoHit}

Questions == {S_FourKeywords, S_TwoKeywords}

\* Chunks are added, each under a new id, and questions are asked.
QueryNext ==
    \/ /\ Len(text_chunks) < MaxChunks
       /\ \E text \in ChunkTexts :
             AddTextChunk(Len(text_chunks) + 1, text, EmptyDict)
    \/ \E q \in Questions : Query(q)

SpecQuery == Init /\ [][QueryNext]_vars

(***************************************************************************)
(* Questions asked of the sample corpus.                                   *)
(***************************************************************************)

\* The number of documents in one store.
MaxCorpus == 3

\* "What is the minimum credit score needed for a loan?"
S_CreditQuestion ==
    <<"W","h","a","t"," ","i","s"," ","t","h","e"," ","m","i","n","i","m","u","m"," ","c","r",
      "e","d","i","t"," ","s","c","o","r","e"," ","n","e","e","d","e","d"," ","f","o","r"," ",
      "a"," ","l","o","a","n","?">>

\* "How long do we have to process data deletion requests?"
S_DeletionQuestion ==
    <<"H","o","w"," ","l","o","n","g"," ","d","o"," ","w","e"," ","h","a","v","e"," ","t","o",
      " ","p","r","o","c","e","s","s"," ","d","a","t","a"," ","d","e","l","e","t","i","o","n",
      " ","r","e","q","u","e","s","t","s","?">>

\* "What transactions require additional verification?"
S_TransactionQuestion ==
    <<"W","h","a","t"," ","t","r","a","n","s","a","c","t","i","o","n","s"," ","r","e","q","u",
      "i","r","e"," ","a","d","d","i","t","i","o","n","a","l"," ","v","e","r","i","f","i","c",
      "a","t","i","o","n","?">>

SampleQuestions ==
    {S_CreditQuestion, S_DeletionQuestion, S_TransactionQuestion}

\* The uuid4 draws of a call on the sample corpus: suffixes no record of the
\* store has, or the same suffix at every draw.
SampleSeeds == {[base |-> Total(kg) + 1, step |-> 1], [base |-> 1, step |-> 0]}

\* The texts of the documents processed into the store.
Processed == {text_chunks[i].text : i \in 1..Len(text_chunks)}

\* The sample policies are processed, one by one or by load_sample_documents
\* into an empty store, and questions are asked.
SampleNext ==
    \/ /\ Len(text_chunks) < MaxCorpus
       /\ \E name \in DOMAIN bank_policies :
             /\ bank_policies[name] \notin Processed
             /\ ProcessDocument([base |-> Total(kg) + 1, step |-> 1],
                                bank_policies[name], name, "banking_policy")
    \/ /\ Len(text_chunks) = 0
       /\ \E seed \in SampleSeeds, listing \in Orders(DOMAIN seeded(sample_dir)) :
             LoadSampleDocuments(seed, listing)
    \/ \E q \in SampleQuestions : Query(q)
    \/ Clear

SpecSample == Init /\ [][SampleNext]_vars

(***************************************************************************)
(* The line scan, the classification and the linking of policy documents.  *)
(***************************************************************************)

\* The number of documents processed into one store.
MaxScan == 2


\* "1. pay\nFees\n2. x\n\n3.5 y\n4. z"
S_Sections ==
    <<"1","."," ","p","a","y","\n","F","e","e","s","\n","2","."," ","x","\n","\n","3",".","5",
      " ","y","\n","4","."," ","z">>

\* "Rates\nLimits\n10.  user $5 "
S_TwoHeadings ==
    <<"R","a","t","e","s","\n","L","i","m","i","t","s","\n","1","0","."," "," ","u","s","e","r",
      " ","$","5"," ">>

\* "1. pay $,\n2. x"
S_CommasOnly ==
    <<"1","."," ","p","a","y"," ","$",",","\n","2","."," ","x">>

\* "Fees"
S_NoRequirement ==
    <<"F","e","e","s">>

\* "$, 5% Big Bank\n \n1/2/"
S_OddGeneric ==
    <<"$",","," ","5","%"," ","B","i","g"," ","B","a","n","k","\n"," ","\n","1","/","2","/">>

\* "Loan data"
S_LoanData ==
    <<"L","o","a","n"," ","d","a","t","a">>

\* "my DATA"
S_MyDATA ==
    <<"m","y"," ","D","A","T","A">>

\* "protection"
S_protection ==
    <<"p","r","o","t","e","c","t","i","o","n">>

\* "a fraud.txt"
S_a_fraud_txt ==
    <<"a"," ","f","r","a","u","d",".","t","x","t">>

\* "Prevention"
S_Prevention ==
    <<"P","r","e","v","e","n","t","i","o","n">>

\* File names for each outcome of the classification: "loan" before "data",
\* upper case, each of the other keywords, and no keyword.
ScanNames == {S_LoanData, S_MyDATA, S_protection, S_a_fraud_txt, S_Prevention, S_a_txt}

\* The policy documents and their file names: <<text, document_name>>.
PolicyInputs ==
    {<<S_TwoHeadings, name>> : name \in ScanNames}
        \cup {<<S_Sections, S_a_txt>>, <<S_CommasOnly, S_a_txt>>,
              <<S_NoRequirement, S_a_txt>>}

\* The generic documents.
GenericInputs == {<<S_OddGeneric, S_a_txt>>, <<S_FiveUsd, S_a_txt>>}

\* The uuid4 draws of a call: suffixes no record of the store has, or the
\* suffixes 1, 2, ... again, which the records of an earlier call have.
ScanSeeds == {[base |-> Total(kg) + 1, step |-> 1], [base |-> 1, step |-> 1]}

\* The number of documents processed into the store.
Documents == Len(SelectSeq(entities, LAMBDA e : e.type \in {"Policy", "Document"}))

\* Documents are processed into the store with either strategy.
ScanNext ==
    \/ /\ Documents < MaxScan
       /\ \E seed \in ScanSeeds, x \in PolicyInputs :
             ProcessDocument(seed, x[1], x[2], "banking_policy")
    \/ /\ Documents < MaxScan
       /\ \E seed \in ScanSeeds, x \in GenericInputs :
             ProcessDocument(seed, x[1], x[2], "generic")

SpecScan == Init /\ [][ScanNext]_vars
(***************************************************************************)
(* The lookups.                                                            *)
(***************************************************************************)

\* The add calls stop once the store holds this many records in all.
MaxLookup == 3

\* The ids looked up: EntityId(3) is the id of no entity.
LookupIds == {EntityId(1), EntityId(2), EntityId(3)}

\* The types looked up: no entity has type "Policy".
LookupTypes == {"Role", "Threshold", "Policy"}

\* Entities and relationships are added, and the store is looked up.
LookupNext ==
    \/ /\ Total(kg) < MaxLookup
       /\ \E s \in Suffixes, x \in EntityInputs : AddEntity(s, x[1], x[2], x[3], x[4])
    \/ /\ Total(kg) < MaxLookup
       /\ \E s \in Suffixes, x \in RelationshipInputs :
             AddRelationship(s, x[1], x[2], x[3], None, DefaultConfidence)
    \/ \E entity_id \in LookupIds : GetEntity(entity_id)
    \/ \E entity_type \in LookupTypes : GetEntitiesByType(entity_type)
    \/ \E entity_id \in LookupIds : GetRelationshipsForEntity(entity_id)

SpecLookup == Init /\ [][LookupNext]_vars
(***************************************************************************)
(* The sample directory.                                                   *)
(***************************************************************************)

\* load_sample_documents is called on a store with fewer documents than this.
MaxLoads == 1

\* "notes.md"
S_notes_md ==
    <<"n","o","t","e","s",".","m","d">>

\* The sample directory at the start: missing, there and empty, or holding files
\* (one policy, and one file that is not a .txt file).
SeedDirs ==
    {Missing, EmptyDict, (S_a_txt :> S_TinyDoc) @@ (S_notes_md :> S_UserData)}

\* A new KnowledgeGraph, and the sample directory in one of its states.
SeedInit ==
    /\ entities = << >>
    /\ relationships = << >>
    /\ text_chunks = << >>
    /\ entity_map = EmptyDict
    /\ files = InitialFiles
    /\ sample_dir \in SeedDirs
    /\ result = InitResult

\* The samples are loaded into a store that holds fewer than MaxLoads documents,
\* questions are asked and the store is cleared.
SeedNext ==
    \/ /\ Len(text_chunks) < MaxLoads
       /\ \E seed \in SampleSeeds, listing \in Orders(DOMAIN seeded(sample_dir)) :
             LoadSampleDocuments(seed, listing)
    \/ \E q \in SampleQuestions \cup {S_user_name} : Query(q)
    \/ Clear

SpecSeed == SeedInit /\ [][SeedNext]_vars
(***************************************************************************)
(* Relevant entities and relationships.                                    *)
(***************************************************************************)

\* The add calls stop once the store holds this many records in all.
MaxRelevance == 4

\* "Limit"
S_Limit ==
    <<"L","i","m","i","t">>

\* "User Data"
S_User_Data ==
    <<"U","s","e","r"," ","D","a","t","a">>

\* "the USER 5000"
S_the_USER_5000 ==
    <<"t","h","e"," ","U","S","E","R"," ","5","0","0","0">>

\* "user? data fees"
S_user_data_fees ==
    <<"u","s","e","r","?"," ","d","a","t","a"," ","f","e","e","s">>

\* "to be"
S_to_be ==
    <<"t","o"," ","b","e">>

\* The arguments of add_entity: an entity matched by its name; one with a number
\* and a string as properties; one that several keywords match, in its name and
\* in two properties.
RelevanceEntities ==
    {<<"Role", S_User, None, DefaultConfidence>>,
     <<"Threshold", S_Limit,
       [amount |-> IntVal(5000), text |-> StrVal(<<"F","e","e","s">>)], 85>>,
     <<"Policy", S_User_Data,
       [text |-> StrVal(S_UserData), filename |-> StrVal(<<"d","a","t","a">>)], 95>>}

\* The arguments of add_relationship; EntityId(9) is the id of no entity.
RelevanceRelationships ==
    {<<"INVOLVES", EntityId(1), EntityId(2)>>,
     <<"RELATED_TO", EntityId(2), EntityId(3)>>,
     <<"MENTIONS", EntityId(3), EntityId(9)>>}

\* The questions: a short token, upper case and a number; punctuation; no token
\* longer than 3 characters.
RelevanceQuestions == {S_the_USER_5000, S_user_data_fees, S_to_be}

\* Entities are added, under a new id or under the id EntityId(1), and
\* relationships, and questions are asked.
RelevanceNext ==
    \/ /\ Total(kg) < MaxRelevance
       /\ \E s \in {1, Len(entities) + 1}, x \in RelevanceEntities :
             AddEntity(s, x[1], x[2], x[3], x[4])
    \/ /\ Total(kg) < MaxRelevance
       /\ \E x \in RelevanceRelationships :
             AddRelationship(Len(relationships) + 1, x[1], x[2], x[3], None,
                             DefaultConfidence)
    \/ \E q \in RelevanceQuestions : Query(q)

SpecRelevance == Init /\ [][RelevanceNext]_vars
(***************************************************************************)
(* Answer synthesis.                                                       *)
(***************************************************************************)

\* The add calls stop once the store holds this many records in all: one
\* entity more than an answer lists.
MaxAnswer == 6

\* The number of chunks in the store: the two an answer joins.
MaxJoined == 2

\* "30 Days"
S_30_Days ==
    <<"3","0"," ","D","a","y","s">>

\* "data deletion"
S_data_deletion ==
    <<"d","a","t","a"," ","d","e","l","e","t","i","o","n">>

\* "700 Limit"
S_700_Limit ==
    <<"7","0","0"," ","L","i","m","i","t">>

\* "Credit 700"
S_Credit_700 ==
    <<"C","r","e","d","i","t"," ","7","0","0">>

\* "$10,000 Threshold"
S_10000_Threshold ==
    <<"$","1","0",",","0","0","0"," ","T","h","r","e","s","h","o","l","d">>

\* "verify transaction"
S_verify_transaction ==
    <<"v","e","r","i","f","y"," ","t","r","a","n","s","a","c","t","i","o","n">>

\* "credit limit"
S_credit_limit ==
    <<"c","r","e","d","i","t"," ","l","i","m","i","t">>

\* "Credit limit days"
S_Credit_limit_days ==
    <<"C","r","e","d","i","t"," ","l","i","m","i","t"," ","d","a","y","s">>

\* "credit score"
S_credit_score ==
    <<"c","r","e","d","i","t"," ","s","c","o","r","e">>

\* "Data Deletion credit score"
S_Data_Deletion_credit_score ==
    <<"D","a","t","a"," ","D","e","l","e","t","i","o","n"," ","c","r","e","d","i","t"," ","s",
      "c","o","r","e">>

\* "deletion request to verify transaction"
S_deletion_request ==
    <<"d","e","l","e","t","i","o","n"," ","r","e","q","u","e","s","t"," ","t","o"," ","v","e",
      "r","i","f","y"," ","t","r","a","n","s","a","c","t","i","o","n">>

\* "Verify Transaction limit"
S_Verify_Transaction_limit ==
    <<"V","e","r","i","f","y"," ","T","r","a","n","s","a","c","t","i","o","n"," ","l","i","m",
      "i","t">>

\* "transaction verification"
S_transaction_verification ==
    <<"t","r","a","n","s","a","c","t","i","o","n"," ","v","e","r","i","f","i","c","a","t","i",
      "o","n">>

\* "transaction limit"
S_transaction_limit ==
    <<"t","r","a","n","s","a","c","t","i","o","n"," ","l","i","m","i","t">>

\* "days limit credit threshold"
S_days_limit ==
    <<"d","a","y","s"," ","l","i","m","i","t"," ","c","r","e","d","i","t"," ","t","h","r","e",
      "s","h","o","l","d">>

\* The arguments of the add_entity calls, in the order of the calls: the entity
\* the deletion shortcut looks for, a Threshold with "700" in its name that no
\* keyword of a credit-score question matches, the entity the credit-score
\* shortcut looks for, and the entity the transaction shortcut looks for.
AnswerEntities ==
    <<<<"TimePeriod", S_30_Days, [text |-> StrVal(S_data_deletion)], 85>>,
      <<"Threshold", S_700_Limit, None, 85>>,
      <<"Threshold", S_Credit_700, None, 85>>,
      <<"Threshold", S_10000_Threshold, [text |-> StrVal(S_verify_transaction)], 85>>>>

\* The texts of the chunks: two of the four keywords of S_days_limit, and three
\* of them.
AnswerChunks == {S_credit_limit, S_Credit_limit_days}

\* Questions with one trigger phrase, with two, with half a trigger
\* ("transaction" without "verification" or "verify"), with none, and without
\* a keyword.
AnswerQuestions ==
    {S_credit_score, S_Data_Deletion_credit_score, S_data_deletion, S_deletion_request,
     S_Verify_Transaction_limit, S_transaction_verification, S_transaction_limit,
     S_days_limit, S_to_be}

\* Entities are added in the order of AnswerEntities, over and over, chunks are
\* added, and questions are asked.
AnswerNext ==
    \/ /\ Total(kg) < MaxAnswer
       /\ \E x \in {AnswerEntities[(Len(entities) % 4) + 1]} :
             AddEntity(Len(entities) + 1, x[1], x[2], x[3], x[4])
    \/ /\ Total(kg) < MaxAnswer
       /\ Len(text_chunks) < MaxJoined
       /\ \E text \in AnswerChunks :
             AddTextChunk(Len(text_chunks) + 1, text, EmptyDict)
    \/ \E q \in AnswerQuestions : Query(q)

SpecAnswer == Init /\ [][AnswerNext]_vars

(***************************************************************************)
(* The specification of the example questions: stores whose entities pass  *)
(* and fail the tests of the topic questions.                              *)
(***************************************************************************)

\* The add calls stop once the store holds this many entities: one for each
\* topic question.
MaxExamples == 4

\* "30 days"
S_30_days ==
    <<"3","0"," ","d","a","y","s">>
\* "Loan Policy"
S_Loan_Policy ==
    <<"L","o","a","n"," ","P","o","l","i","c","y">>
\* "Score 700"
S_Score_700 ==
    <<"S","c","o","r","e"," ","7","0","0">>

\* Entities that pass a test, and entities that fail one by their type or by
\* the case of their name.
ExampleEntities ==
    {<<"Policy", S_Loan_Policy>>, <<"Threshold", S_10000_Threshold>>,
     <<"TimePeriod", S_30_days>>, <<"TimePeriod", S_30_Days>>,
     <<"Threshold", S_Score_700>>, <<"Requirement", S_700_Limit>>}

ExamplesNext ==
    \/ /\ Len(entities) < MaxExamples
       /\ \E x \in ExampleEntities :
             AddEntity(Len(entities) + 1, x[1], x[2], None, DefaultConfidence)
    \/ GetExampleQuestions
    \/ Clear

SpecExamples == Init /\ [][ExamplesNext]_vars

(***************************************************************************)
(* The specification of extraction into loaded stores: documents are       *)
(* processed into stores that a load has filled, or has left half filled.  *)
(***************************************************************************)

\* The number of documents (loaded Policy entities included) the store holds
\* when the process_document calls stop.
MaxIntegrity == 2

\* A file whose relationship lacks its source; its entity is a well-formed Policy.
BrokenPolicyFile ==
    [entities |->
        <<[id |-> EntityId(90), type |-> "Policy",
           name |-> <<"B","a","n","k"," ","P","o","l","i","c","y">>]>>,
     relationships |-> <<[id |-> RelId(90), type |-> "RELATED_TO", target |-> EntityId(90)]>>,
     text_chunks |-> << >>]

\* A new KnowledgeGraph, and the two files on disk.
IntegrityInit ==
    /\ entities = << >>
    /\ relationships = << >>
    /\ text_chunks = << >>
    /\ entity_map = EmptyDict
    /\ files = ("edited.json" :> EditedFile) @@ ("policies.json" :> BrokenPolicyFile)
    /\ sample_dir = Missing
    /\ result = InitResult

\* Files are loaded, and documents are processed with either strategy.
IntegrityNext ==
    \/ \E f \in {"edited.json", "policies.json"} : Load(f)
    \/ /\ Documents < MaxIntegrity
       /\ \E seed \in ScanSeeds, x \in PolicyInputs :
             ProcessDocument(seed, x[1], x[2], "banking_policy")
    \/ /\ Documents < MaxIntegrity
       /\ \E seed \in ScanSeeds, x \in GenericInputs :
             ProcessDocument(seed, x[1], x[2], "generic")
    \/ Clear

SpecIntegrity == IntegrityInit /\ [][IntegrityNext]_vars
(***************************************************************************)
(* The claims.                                                             *)
(***************************************************************************)

\* The ids of the records of a sequence.
IdsOf(records) == {records[i].id : i \in 1..Len(records)}

\* The sum of the values of a dictionary of numbers.
RECURSIVE SumValues(_)
SumValues(d) ==
    IF DOMAIN d = {} THEN 0
    ELSE LET k == CHOOSE x \in DOMAIN d : TRUE
         IN  d[k] + SumValues([x \in DOMAIN d \ {k} |-> d[x]])

AddOps == {"add_entity", "add_relationship", "add_text_chunk"}

\* C1: the id an add call returns differs from every id already in the store
\* (of an entity, a relationship or a chunk), so the ids returned are pairwise
\* distinct.
C1_ReturnedIdsAreDistinct ==
    [][(result'.op \in AddOps /\ Total(kg') = Total(kg) + 1)
          => result'.value \notin
                IdsOf(entities) \cup IdsOf(relationships) \cup IdsOf(text_chunks)]_vars

\* C2: saving a store and loading what was saved into a fresh store gives back
\* the same entities, relationships and chunks (ids, fields, similarity, order)
\* and an index over the ids of the entities; and every file save has written
\* loads without error and is saved again unchanged.
RoundTrip(g) ==
    \E r \in {load(EmptyGraph, ("roundtrip.json" :> save(g)), "roundtrip.json")} :
        /\ r.value /\ ~r.raised
        /\ r.g.entities = g.entities
        /\ r.g.relationships = g.relationships
        /\ r.g.text_chunks = g.text_chunks
        /\ DOMAIN r.g.entity_map = IdsOf(g.entities)

C2_RoundTrip ==
    /\ RoundTrip(kg)
    /\ \A f \in SavePaths \cap DOMAIN files :
          \E r \in {load(EmptyGraph, files, f)} :
              r.value /\ ~r.raised /\ save(r.g) = files[f] /\ RoundTrip(r.g)

\* A store that was saved to kg.json and loaded back, with an entity, a
\* relationship and a chunk whose similarity a query has set.
C2_Witness ==
    /\ result.op = "load" /\ result.filename = "kg.json" /\ result.value
    /\ Len(entities) > 0 /\ Len(relationships) > 0
    /\ \E i \in 1..Len(text_chunks) : text_chunks[i].similarity # ZeroSimilarity
    /\ save(kg) = files["kg.json"]

\* C3: load on a path that does not exist returns False and leaves entities,
\* relationships, chunks and the index as they were.
C3_LoadMissing ==
    [][(result'.op = "load" /\ result'.filename \notin DOMAIN files)
          => (result'.value = FALSE /\ ~result'.raised /\ kg' = kg)]_vars

\* A load of a missing path that returned False on a store that holds records.
C3_Witness ==
    /\ result.op = "load" /\ result.filename \notin DOMAIN files
    /\ result.value = FALSE
    /\ Len(entities) > 0 /\ Len(text_chunks) > 0 /\ DOMAIN entity_map # {}

\* The record from_dict is to build from a file record: the keys given, and the
\* defaults for the optional keys left out.
WithDefaults(data, defaults) ==
    [k \in DOMAIN data \cup DOMAIN defaults |->
        IF k \in DOMAIN data THEN data[k] ELSE defaults[k]]

\* The sequence holds the file's records in file order, defaults applied.
HoldsFileRecords(records, data, defaults) ==
    /\ Len(records) = Len(data)
    /\ \A i \in 1..Len(data) : records[i] = WithDefaults(data[i], defaults)

\* get_entity(id) is the last entity of the sequence with that id.
IndexIsLastWins(g) ==
    /\ DOMAIN g.entity_map = IdsOf(g.entities)
    /\ \A i \in 1..Len(g.entities) :
          (\A j \in (i + 1)..Len(g.entities) : g.entities[j].id # g.entities[i].id)
              => get_entity(g, g.entities[i].id) = g.entities[i]

\* C4: a load that succeeds leaves exactly the file's records, in file order,
\* with properties {}, confidence 1.0, metadata {} and similarity 0.0 for the
\* keys left out; nothing of the earlier store is kept; of several entities
\* with one id all stay and get_entity gives the last.
C4_LoadReplaces ==
    [][(result'.op = "load" /\ result'.value = TRUE)
          => /\ HoldsFileRecords(entities', files[result'.filename].entities,
                    [properties |-> EmptyDict, confidence |-> 100])
             /\ HoldsFileRecords(relationships', files[result'.filename].relationships,
                    [properties |-> EmptyDict, confidence |-> 100])
             /\ HoldsFileRecords(text_chunks', files[result'.filename].text_chunks,
                    [metadata |-> EmptyDict, similarity |-> <<0, 1>>])
             /\ IndexIsLastWins(kg')]_vars

\* The hand-written file, with two entities of one id, loaded over a store that
\* held entities.
C4_Witness ==
    /\ result.op = "load" /\ result.filename = "edited.json" /\ result.value = TRUE
    /\ result.pre.entities > 0
    /\ Len(entities) = 3 /\ entities[1].id = entities[2].id
    /\ get_entity(kg, entities[1].id) = entities[2]

\* What get_stats returned agrees with the store.
StatsAgree(stats, g) ==
    /\ stats.entity_count = Len(g.entities)
    /\ stats.relationship_count = Len(g.relationships)
    /\ stats.text_chunk_count = Len(g.text_chunks)
    /\ SumValues(stats.entity_types) = stats.entity_count
    /\ SumValues(stats.relationship_types) = stats.relationship_count

\* C5: what get_stats returned gives the lengths of the three sequences, its
\* per-type counts sum to the entity and relationship counts, and a second call
\* on the unchanged store returns the same.
C5_Stats ==
    result.op = "get_stats"
        => (StatsAgree(result.value, kg) /\ get_stats(kg) = result.value)

\* get_stats on a store with two entities of one type and a relationship.
C5_Witness ==
    /\ result.op = "get_stats"
    /\ \E i, j \in 1..Len(entities) : i # j /\ entities[i].type = entities[j].type
    /\ Len(relationships) > 0

\* C6: clear leaves the three sequences empty and every id that get_entity
\* resolved before resolves to nothing; the store is then the store of a new
\* KnowledgeGraph, which a second clear leaves as it is.
C6_Clear ==
    [][result'.op = "clear"
          => /\ entities' = << >> /\ relationships' = << >> /\ text_chunks' = << >>
             /\ \A id \in DOMAIN entity_map : get_entity(kg', id) = None
             /\ kg' = EmptyGraph
             /\ clear(kg') = kg']_vars

\* clear on a store that held entities, relationships and chunks.
C6_Witness ==
    /\ result.op = "clear"
    /\ result.pre.entities > 0 /\ result.pre.relationships > 0
    /\ result.pre.text_chunks > 0
    /\ entities = << >>

\* The records the last call appended to a sequence that held n records before.
Appended(records, n) == SubSeq(records, n + 1, Len(records))

OfType(records, type) == SelectSeq(records, LAMBDA r : r.type = type)

\* Some relationship of the sequence has this type, source and target.
Linked(rels, type, source, target) ==
    \E i \in 1..Len(rels) :
        rels[i].type = type /\ rels[i].source = source /\ rels[i].target = target

\* "Senior Loan Officer"
SeniorLoanOfficer ==
    <<"S","e","n","i","o","r"," ","L","o","a","n"," ","O","f","f","i","c","e","r">>

\* C8: policy extraction of the numbered requirement "Large loans ($50,000+)
\* require approval from the Senior Loan Officer." creates a Threshold with
\* amount 50000 that the requirement MENTIONS and a Role named exactly
\* "Senior Loan Officer" that the requirement INVOLVES.
C8_LargeLoans ==
    (result.op = "process_document" /\ result.text \in LargeLoansDocs)
        => \E req \in IdsOf(OfType(Appended(entities, result.pre.entities), "Requirement")) :
              /\ \E i \in result.pre.entities + 1..Len(entities) :
                    /\ entities[i].type = "Threshold"
                    /\ entities[i].properties.amount = IntVal(50000)
                    /\ Linked(Appended(relationships, result.pre.relationships),
                              "MENTIONS", req, entities[i].id)
              /\ \E i \in result.pre.entities + 1..Len(entities) :
                    /\ entities[i].type = "Role"
                    /\ entities[i].name = SeniorLoanOfficer
                    /\ Linked(Appended(relationships, result.pre.relationships),
                              "INVOLVES", req, entities[i].id)

\* C9: policy extraction of a document whose only numbered line is "1. Customers
\* must have a minimum credit score of 700 to qualify for a loan." creates one
\* Requirement, no Threshold, Percentage or TimePeriod, and one Role, named
\* "Customer", the target of the one INVOLVES relationship, whose source is the
\* requirement.
C9_CreditScoreLine ==
    (result.op = "process_document" /\ result.text \in CreditScoreDocs)
        => \E new \in {Appended(entities, result.pre.entities)},
              rels \in {Appended(relationships, result.pre.relationships)} :
              /\ ~result.raised
              /\ Len(OfType(new, "Requirement")) = 1
              /\ Len(OfType(new, "Threshold")) = 0
              /\ Len(OfType(new, "Percentage")) = 0
              /\ Len(OfType(new, "TimePeriod")) = 0
              /\ Len(OfType(new, "Role")) = 1
              /\ OfType(new, "Role")[1].name = S_Customer
              /\ Len(OfType(rels, "INVOLVES")) = 1
              /\ OfType(rels, "INVOLVES")[1].source = OfType(new, "Requirement")[1].id
              /\ OfType(rels, "INVOLVES")[1].target = OfType(new, "Role")[1].id
              /\ result.value.requirement_ids = <<OfType(new, "Requirement")[1].id>>

\* The credit-score document, under a heading, processed into a store that
\* held another policy.
C9_Witness ==
    /\ result.op = "process_document" /\ result.text \in CreditScoreDocs
    /\ Len(result.text) > Len(S_CreditScoreLine)
    /\ result.pre.entities > 0
    /\ \E i \in result.pre.entities + 1..Len(entities) :
          entities[i].type = "Role" /\ entities[i].name = S_Customer

\* The number of the keywords that are substrings of the lower-cased text.
Hits(keywords, text) ==
    Cardinality({k \in 1..Len(keywords) : Contains(lower(text), keywords[k])})

\* The chunks of the store with at least one hit.
Matched(keywords) ==
    {i \in 1..Len(text_chunks) : Hits(keywords, text_chunks[i].text) > 0}

\* The number of matched chunks that come before chunk i: those of greater
\* similarity, and those of equal similarity earlier in the store.
Rank(keywords, i) ==
    Cardinality({j \in Matched(keywords) :
        \/ Greater(text_chunks[j].similarity, text_chunks[i].similarity)
        \/ text_chunks[j].similarity = text_chunks[i].similarity /\ j < i})

\* C10: query returns only chunks with a keyword in their lower-cased text, sets
\* the similarity of each to hits / keywords (3 of 4 is 3/4, 1 of 4 is 1/4),
\* orders them by descending similarity, equal similarities in store order, and
\* returns the first 5 at most.
C10_ChunkRetrieval ==
    result.op = "query"
        => \E keywords \in {keywords_of(result.query_text)} :
              /\ \A i \in Matched(keywords) :
                    /\ text_chunks[i].similarity =
                          Fraction(Hits(keywords, text_chunks[i].text), Len(keywords))
                    /\ Rank(keywords, i) < 5
                          => \E c \in {result.value.chunks[Rank(keywords, i) + 1]} :
                                /\ c.id = text_chunks[i].id
                                /\ c.text = text_chunks[i].text
                                /\ c.similarity = text_chunks[i].similarity
              /\ Len(result.value.chunks) =
                    (IF Cardinality(Matched(keywords)) < 5
                        THEN Cardinality(Matched(keywords)) ELSE 5)
              /\ \A i \in 1..Len(text_chunks) :
                    (result.query_text = S_FourKeywords /\ text_chunks[i].text = S_ThreeHits)
                        => text_chunks[i].similarity = <<3, 4>>
              /\ \A i \in 1..Len(text_chunks) :
                    (result.query_text = S_FourKeywords /\ text_chunks[i].text = S_OneHit)
                        => text_chunks[i].similarity = <<1, 4>>

\* A question of four keywords asked of six matching chunks, the first of the
\* store with one hit: five are returned, the first with similarity 3/4, the
\* last two with 1/4.
C10_Witness ==
    /\ result.op = "query" /\ result.query_text = S_FourKeywords
    /\ Cardinality(Matched(keywords_of(S_FourKeywords))) = 6
    /\ text_chunks[1].text = S_OneHit
    /\ Len(result.value.chunks) = 5
    /\ result.value.chunks[1].similarity = <<3, 4>>
    /\ result.value.chunks[4].similarity = <<1, 4>>
    /\ result.value.chunks[5].similarity = <<1, 4>>

\* The store holds the three sample policies and nothing else.
SampleCorpusProcessed ==
    /\ Len(text_chunks) = 3
    /\ Processed = {bank_policies[name] : name \in DOMAIN bank_policies}

\* C7: after the three sample policies are processed into an empty store, the
\* question "What is the minimum credit score needed for a loan?" is answered
\* with the sentence that gives the minimum credit score of 700.
C7_CreditScoreAnswer ==
    (result.op = "query" /\ result.query_text = S_CreditQuestion /\ SampleCorpusProcessed)
        => result.value.answer = CreditScoreAnswer


(***************************************************************************)
(* The claims about queries on an empty store and about the robustness of  *)
(* process_document.                                                       *)
(***************************************************************************)

\* C11: query never fails, and when the question has no keyword (no token longer
\* than 3 characters) or the store is empty it returns the default "not enough
\* information" answer with empty entities, relationships and chunks.
C11_DefaultAnswer ==
    (result.op = "query"
        /\ (Len(keywords_of(result.query_text)) = 0 \/ Total(kg) = 0))
        => /\ ~result.raised
           /\ result.value.answer = DefaultAnswer
           /\ result.value.entities = << >>
           /\ result.value.relationships = << >>
           /\ result.value.chunks = << >>

\* C12: process_document does not raise, whatever the text and the document
\* type, and returns its summary; a numbered requirement in which '$' is followed
\* by commas only is one of the texts.
C12_NeverRaises ==
    result.op = "process_document"
        => /\ ~result.raised
           /\ result.value.entity_count = Len(entities)
           /\ result.value.relationship_count = Len(relationships)

\* The policy type the classification gives each file name of ScanNames.
ExpectedPolicyType ==
    (S_LoanData :> <<"L","o","a","n"," ","P","o","l","i","c","y">>)
    @@ (S_MyDATA :> <<"D","a","t","a"," ","P","r","o","t","e","c","t","i","o","n"," ",
                      "P","o","l","i","c","y">>)
    @@ (S_protection :> <<"D","a","t","a"," ","P","r","o","t","e","c","t","i","o","n"," ",
                          "P","o","l","i","c","y">>)
    @@ (S_a_fraud_txt :> <<"F","r","a","u","d"," ","P","r","e","v","e","n","t","i","o","n"," ",
                           "P","o","l","i","c","y">>)
    @@ (S_Prevention :> <<"F","r","a","u","d"," ","P","r","e","v","e","n","t","i","o","n"," ",
                          "P","o","l","i","c","y">>)
    @@ (S_a_txt :> <<"B","a","n","k"," ","P","o","l","i","c","y">>)

\* C13: a policy-strategy call classifies the file name by the first keyword
\* group it holds, ignoring case ("loan"; "data" or "protection"; "fraud" or
\* "prevention"; otherwise "Bank Policy"), and creates exactly one Policy entity
\* with that name and the file name in its properties, and exactly one chunk
\* holding the whole document, tagged with the file name and the policy type.
C13_Classification ==
    (result.op = "process_document" /\ result.document_type = "banking_policy")
        => \E new \in {Appended(entities, result.pre.entities)},
              chunks \in {Appended(text_chunks, result.pre.text_chunks)},
              type \in {ExpectedPolicyType[result.document_name]} :
              /\ Len(OfType(new, "Policy")) = 1
              /\ new[1].type = "Policy"
              /\ new[1].name = type
              /\ new[1].properties = [filename |-> StrVal(result.document_name)]
              /\ Len(chunks) = 1
              /\ chunks[1].text = result.text
              /\ chunks[1].metadata = [source |-> StrVal(result.document_name),
                                       policy |-> StrVal(type)]

\* A second policy document was processed, under the file name that holds both
\* "loan" and "data".
C13_Witness ==
    /\ result.op = "process_document" /\ result.document_type = "banking_policy"
    /\ result.document_name = S_LoanData
    /\ result.pre.entities > 0
    /\ Len(OfType(entities, "Policy")) = 2

\* The records a call found in the store are where they were, unchanged.
KeepsRecords ==
    /\ SubSeq(entities', 1, Len(entities)) = entities
    /\ SubSeq(relationships', 1, Len(relationships)) = relationships
    /\ SubSeq(text_chunks', 1, Len(text_chunks)) = text_chunks

\* No record a call has appended has the id of a record the call found.
AppendsFreshIds ==
    /\ IdsOf(Appended(entities', Len(entities))) \cap IdsOf(entities) = {}
    /\ IdsOf(Appended(relationships', Len(relationships))) \cap IdsOf(relationships) = {}
    /\ IdsOf(Appended(text_chunks', Len(text_chunks))) \cap IdsOf(text_chunks) = {}

\* C14: process_document, with either strategy, only appends: the records of the
\* store stay at their positions, unchanged, and the records it adds have ids
\* that no earlier record has, also when the same text and file name are
\* processed again.
C14_PureAppender ==
    [][result'.op = "process_document" => KeepsRecords /\ AppendsFreshIds]_vars

LookupOps == {"get_entity", "get_entities_by_type", "get_relationships_for_entity"}

\* The positions of the relationships that name the id as source or as target.
Naming(entity_id) ==
    {i \in 1..Len(relationships) :
        relationships[i].source = entity_id \/ relationships[i].target = entity_id}

\* What the last call returned is what the store holds: get_entity gives None
\* for an id that is not in the index and an entity of the store with that id
\* otherwise; the two filters give the matching records, in the order of the
\* store, each once; add_relationship has appended a relationship under the id
\* it returned, whether or not its source and target name an entity.
LookupAnswer ==
    /\ ~result.raised
    /\ result.op = "get_entity"
          => IF result.entity_id \in DOMAIN entity_map
                 THEN \E i \in 1..Len(entities) :
                         entities[i] = result.value /\ entities[i].id = result.entity_id
             ELSE result.value = None
    /\ result.op = "get_entities_by_type"
          => result.value = OfType(entities, result.entity_type)
    /\ result.op = "get_relationships_for_entity"
          => /\ Len(result.value) = Cardinality(Naming(result.entity_id))
             /\ result.value =
                   SelectSeq(relationships,
                             LAMBDA r : result.entity_id \in {r.source, r.target})
    /\ result.op = "add_relationship"
          => /\ Len(relationships) = result.pre.relationships + 1
             /\ relationships[Len(relationships)].id = result.value

\* C15: the lookups do not fail and leave the store as it is; an unknown id or
\* type gives None or an empty sequence, a known one the matching records in
\* insertion order, a relationship from an entity to itself once; and
\* add_relationship accepts a source and a target that name no entity.
C15_Lookups ==
    [][/\ LookupAnswer'
       /\ result'.op \in LookupOps
             => UNCHANGED <<entities, relationships, text_chunks, entity_map>>]_vars

\* The relationships of EntityId(1) were looked up in a store that holds a
\* relationship from EntityId(1) to itself and no entity at all.
C15_Witness ==
    /\ result.op = "get_relationships_for_entity"
    /\ result.entity_id = EntityId(1)
    /\ Len(entities) = 0
    /\ \E i \in 1..Len(relationships) :
          relationships[i].source = EntityId(1) /\ relationships[i].target = EntityId(1)
    /\ Len(result.value) = Len(relationships)
    /\ Len(relationships) >= 2

\* The number of .txt files of a directory.
TextFiles(dir) ==
    Cardinality({name \in DOMAIN dir : endswith(name, <<".","t","x","t">>)})

\* C16: load_sample_documents writes the three sample policies when the sample
\* directory is missing or is there and empty, and then processes every file of
\* the directory, so that an empty store holds three Policy entities afterwards;
\* a directory that holds files is left as it is and its files are processed.
C16_SeedsMissingOrEmpty ==
    [][result'.op = "load_sample_documents"
          => IF sample_dir = Missing \/ DOMAIN sample_dir = {}
                 THEN /\ sample_dir' = bank_policies
                      /\ Total(kg) = 0 => Len(OfType(entities', "Policy")) = 3
             ELSE /\ sample_dir' = sample_dir
                  /\ ~result'.raised
                        => Len(OfType(entities', "Policy"))
                              = Len(OfType(entities, "Policy")) + TextFiles(sample_dir)]_vars

\* The positions of the Policy entities of the store.
Policies == {i \in 1..Len(entities) : entities[i].type = "Policy"}

\* The RELATED_TO relationships the last call has added link its Policy, the
\* first entity it added, to every other Policy of the store, once each and in
\* store order, with confidence 0.7 and a reason.
LinksNewPolicy ==
    \E p \in {result.pre.entities + 1},
       related \in {OfType(Appended(relationships, result.pre.relationships),
                           "RELATED_TO")} :
        /\ Len(related) = Cardinality(Policies \ {p})
        /\ \A k \in 1..Len(related) :
              /\ related[k].source = entities[p].id
              /\ related[k].target # entities[p].id
              /\ related[k].confidence = 70
              /\ DOMAIN related[k].properties = {"reason"}
              /\ \E i \in Policies \ {p} : entities[i].id = related[k].target
        /\ \A i \in Policies \ {p} :
              Cardinality({k \in 1..Len(related) : related[k].target = entities[i].id}) = 1

\* C17: a policy-strategy call ends by linking the Policy it created to every
\* other Policy of the store with one RELATED_TO relationship (confidence 0.7,
\* property reason), to itself with none, and adds none when it is the only
\* Policy; n policy ingestions into an empty store leave n(n-1)/2 of them.
C17_CrossLinks ==
    /\ (result.op = "process_document" /\ result.document_type = "banking_policy")
          => LinksNewPolicy
    /\ 2 * Len(OfType(relationships, "RELATED_TO"))
          = Cardinality(Policies) * (Cardinality(Policies) - 1)

\* The lines of the document of the last call, stripped.
ScannedLines ==
    LET lines == split_sep(result.text, "\n")
    IN  [k \in 1..Len(lines) |-> strip(lines[k])]

\* The number of digits a line starts with when a '.' follows them (0 otherwise).
LeadingDigits(line) ==
    LET ds == {d \in 1..Len(line) - 1 :
                  line[d + 1] = "." /\ \A j \in 1..d : line[j] \in Digits}
    IN  IF ds = {} THEN 0 ELSE CHOOSE d \in ds : TRUE

\* A line that becomes the current section: not blank, not digits and '.'.
IsSection(line) == Len(line) > 0 /\ LeadingDigits(line) = 0

\* A line that is a requirement: digits, '.', whitespace, text.
IsRequirement(line) ==
    /\ LeadingDigits(line) > 0
    /\ Len(line) >= LeadingDigits(line) + 2
    /\ line[LeadingDigits(line) + 2] \in Whitespace

\* The Requirement the claim gives line k of the lines: its name, its text (what
\* follows the whitespace) and its section (the last section line before it, the
\* policy type when there is none).
ExpectedRequirement(lines, k, policy_type) ==
    LET line == lines[k]
        d == LeadingDigits(line)
        t == CHOOSE j \in d + 2..Len(line) :
                 line[j] \notin Whitespace /\ \A i \in d + 2..j - 1 : line[i] \in Whitespace
        sections == {j \in 1..k - 1 : IsSection(lines[j])}
    IN  [name |-> <<"R","e","q","u","i","r","e","m","e","n","t"," ">> \o SubSeq(line, 1, d),
         text |-> SubSeq(line, t, Len(line)),
         section |-> IF sections = {} THEN policy_type
                     ELSE lines[CHOOSE j \in sections : \A i \in sections : i <= j]]

\* The Requirements the claim gives the lines, in line order.
ExpectedRequirements(lines, policy_type) ==
    LET ks == SelectSeq([k \in 1..Len(lines) |-> k], LAMBDA k : IsRequirement(lines[k]))
    IN  [n \in 1..Len(ks) |-> ExpectedRequirement(lines, ks[n], policy_type)]

\* The Requirement entities new and their HAS_REQUIREMENT relationships has are
\* the first of the expected ones: names, texts and sections agree, the n-th
\* relationship goes from the Policy to the n-th Requirement, and every other
\* entity but the Policy comes from the text of one of the requirements.
ScannedAs(new, has, expected) ==
    \E reqs \in {OfType(new, "Requirement")} :
        /\ Len(reqs) <= Len(expected)
        /\ Len(has) = Len(reqs)
        /\ \A n \in 1..Len(reqs) :
              /\ reqs[n].name = expected[n].name
              /\ reqs[n].properties = [text |-> StrVal(expected[n].text),
                                       section |-> StrVal(expected[n].section)]
              /\ has[n].source = new[1].id
              /\ has[n].target = reqs[n].id
        /\ \A i \in 2..Len(new) :
              new[i].type # "Requirement"
                 => \E n \in 1..Len(reqs) : new[i].properties.text = reqs[n].properties.text

ClaimKeywords(q) ==
    {lower(SubSeq(q, a, b)) : <<a, b>> \in
        {t \in (1..Len(q)) \X (1..Len(q)) :
            /\ t[2] - t[1] + 1 > 3
            /\ \A i \in t[1]..t[2] : q[i] \notin Whitespace
            /\ t[1] > 1 => q[t[1] - 1] \in Whitespace
            /\ t[2] < Len(q) => q[t[2] + 1] \in Whitespace}}

\* Some keyword is part of the lower-cased name of the entity or of one of its
\* properties that is a string.
RelevantEntity(e, keywords) ==
    \E kw \in keywords :
        \/ Contains(lower(e.name), kw)
        \/ \E p \in DOMAIN e.properties :
              /\ DOMAIN e.properties[p] = {"str"}
              /\ Contains(lower(e.properties[p].str), kw)

\* C19: query returns the entities for which a keyword of the question (a token
\* longer than 3 characters, lower-cased, punctuation kept) is part of the
\* lower-cased name or of a lower-cased string property; a property that is not
\* a string matches nothing; the entities are in store order, each once.
C19_EntityRelevance ==
    result.op = "query"
        => \E relevant \in {SelectSeq(entities,
                  LAMBDA e : RelevantEntity(e, ClaimKeywords(result.query_text)))} :
              result.value.entities =
                  [n \in 1..Len(relevant) |-> Entity_to_dict(relevant[n])]

\* "the USER 5000" was asked of a store that holds two entities with "user" in
\* their names, one of them also in a property, and the entity whose amount is
\* the number 5000: the first two are returned, the third is not.
C19_Witness ==
    /\ result.op = "query" /\ result.query_text = S_the_USER_5000
    /\ Len(entities) = 3
    /\ \E i \in 1..3 : entities[i].name = S_Limit
    /\ \E i \in 1..3 : entities[i].name = S_User_Data
    /\ \E i \in 1..3 : entities[i].name = S_User
    /\ Len(result.value.entities) = 2

\* C20: the relationships query returns are the relationships of the store
\* whose source or target is the id of a returned entity, in store order, each
\* once; none is returned when no entity is relevant.
C20_RelationshipRelevance ==
    result.op = "query"
        => \E ids \in {IdsOf(result.value.entities)} :
              \E relevant \in {SelectSeq(relationships,
                                  LAMBDA r : r.source \in ids \/ r.target \in ids)} :
                 /\ result.value.relationships =
                       [n \in 1..Len(relevant) |-> Relationship_to_dict(relevant[n])]
                 /\ Len(result.value.entities) = 0 => result.value.relationships = << >>

\* A question was asked of a store with a relationship that has one end among
\* the returned entities and a relationship that has none: the first is
\* returned, the second is not.
C20_Witness ==
    /\ result.op = "query"
    /\ Len(relationships) = 2
    /\ Len(entities) = 2
    /\ Len(result.value.entities) = 1
    /\ Len(result.value.relationships) = 1
    /\ \E i \in 1..2 :
          /\ relationships[i].source \notin IdsOf(result.value.entities)
          /\ relationships[i].target \notin IdsOf(result.value.entities)
    /\ \E i \in 1..2 :
          /\ relationships[i].id = result.value.relationships[1].id
          /\ relationships[i].source \in IdsOf(entities)
          /\ relationships[i].target \in IdsOf(entities)

(***************************************************************************)
(* The claims about answer synthesis.                                      *)
(***************************************************************************)

\* The phrase is part of the lower-cased question of the last call.
Asks(phrase) == Contains(lower(result.query_text), phrase)

\* The shortcut the question of the last call triggers: the first, in the order
\* credit score, data deletion, transaction, whose phrase it holds ("none" if it
\* holds no phrase).
Shortcut ==
    IF Asks(<<"c","r","e","d","i","t"," ","s","c","o","r","e">>) THEN "credit_score"
    ELSE IF \/ Asks(<<"d","a","t","a"," ","d","e","l","e","t","i","o","n">>)
            \/ Asks(<<"d","e","l","e","t","i","o","n"," ","r","e","q","u","e","s","t">>)
        THEN "data_deletion"
    ELSE IF /\ Asks(<<"t","r","a","n","s","a","c","t","i","o","n">>)
            /\ \/ Asks(<<"v","e","r","i","f","i","c","a","t","i","o","n">>)
               \/ Asks(<<"v","e","r","i","f","y">>)
        THEN "transaction"
    ELSE "none"

\* An entity the last call returned has this type and this part in its name
\* (in its lower-cased name for the TimePeriod).
Returned(type, part) ==
    \E i \in 1..Len(result.value.entities) :
        /\ result.value.entities[i].type = type
        /\ Contains(IF type = "TimePeriod" THEN lower(result.value.entities[i].name)
                    ELSE result.value.entities[i].name, part)

\* C21: the shortcuts are tested in the order credit score, data deletion /
\* deletion request, transaction with verification / verify; the first whose
\* phrase is in the lower-cased question gives the answer, which is the canned
\* sentence when the entity it looks for is among the relevant entities and the
\* fallback sentence otherwise, whatever chunks and entities were found.
C21_ShortcutPriority ==
    result.op = "query"
        => /\ Shortcut = "credit_score"
                 => result.value.answer =
                       (IF Returned("Threshold", <<"7","0","0">>)
                            THEN CreditScoreAnswer ELSE CreditScoreFallback)
           /\ Shortcut = "data_deletion"
                 => result.value.answer =
                       (IF Returned("TimePeriod", <<"3","0"," ","d","a","y">>)
                            THEN DataDeletionAnswer ELSE DataDeletionFallback)
           /\ Shortcut = "transaction"
                 => result.value.answer =
                       (IF Returned("Threshold", <<"$","1","0",",","0","0","0">>)
                            THEN TransactionAnswer ELSE TransactionFallback)

\* A question with both "data deletion" and "credit score" was asked of a store
\* with the entities of both shortcuts and a chunk the question matches: the
\* answer is the canned credit-score sentence.
C21_Witness ==
    /\ result.op = "query" /\ result.query_text = S_Data_Deletion_credit_score
    /\ Returned("TimePeriod", <<"3","0"," ","d","a","y">>)
    /\ Len(result.value.chunks) > 0
    /\ result.value.answer = CreditScoreAnswer

\* The "- name (type)" items of the first five entities the last call returned.
ListedEntities ==
    [i \in 1..(IF Len(result.value.entities) < 5 THEN Len(result.value.entities) ELSE 5) |->
        [name |-> result.value.entities[i].name, type |-> result.value.entities[i].type]]

\* The top chunk the last call returned scored above one half.
TopAboveHalf ==
    /\ Len(result.value.chunks) > 0
    /\ 2 * result.value.chunks[1].similarity[1] > result.value.chunks[1].similarity[2]

\* C22: when the question triggers no shortcut, the answer is the text of the
\* top chunk if that chunk's similarity is above 0.5; else the texts of the top
\* two chunks joined by a newline if two chunks were returned; else the list of
\* the first five relevant entities if any entity is relevant; else the default
\* message.  A similarity of exactly 0.5 is not above 0.5.
C22_FallThrough ==
    (result.op = "query" /\ Shortcut = "none")
        => result.value.answer =
              (IF TopAboveHalf
                   THEN [kind |-> "top_chunk",
                         fixed |-> "Based on the available information: ",
                         body |-> result.value.chunks[1].text, items |-> << >>]
               ELSE IF Len(result.value.chunks) >= 2
                   THEN [kind |-> "two_chunks",
                         fixed |-> "Based on the available information:\n\n",
                         body |-> result.value.chunks[1].text \o <<"\n">>
                                     \o result.value.chunks[2].text,
                         items |-> << >>]
               ELSE IF Len(result.value.entities) > 0
                   THEN [kind |-> "entities",
                         fixed |-> "Based on your query, I found these relevant items in the knowledge base:\n\n",
                         body |-> << >>, items |-> ListedEntities]
               ELSE [kind |-> "default",
                     fixed |-> "I don't have enough information to answer that specific question. Please try asking about credit scores, loan approvals, data deletion, transaction verification, or fraud prevention.",
                     body |-> << >>, items |-> << >>])

\* A question without a shortcut found one chunk, with similarity exactly one
\* half, and relevant entities: the answer lists the entities.
C22_Witness ==
    /\ result.op = "query" /\ Shortcut = "none"
    /\ Len(result.value.chunks) = 1
    /\ result.value.chunks[1].similarity = <<1, 2>>
    /\ Len(result.value.entities) > 0
    /\ result.value.answer.kind = "entities"

(***************************************************************************)
(* The claim about the example questions.                                  *)
(***************************************************************************)

\* An entity of the store has this type and this part in its name.
Holds(type, part) ==
    \E i \in 1..Len(entities) : entities[i].type = type /\ Contains(entities[i].name, part)

\* The topic questions whose condition holds in the store, in the fixed order.
ExpectedTopics ==
    (IF \E i \in 1..Len(entities) : entities[i].type = "Policy"
         THEN <<"What are the main policies in the system?">> ELSE << >>)
    \o (IF Holds("Threshold", <<"$","1","0",",","0","0","0">>)
            THEN <<"What transactions require additional verification?">> ELSE << >>)
    \o (IF Holds("TimePeriod", <<"3","0"," ","d","a","y">>)
            THEN <<"How long do we have to process data deletion requests?">> ELSE << >>)
    \o (IF Holds("Threshold", <<"7","0","0">>)
            THEN <<"What is the minimum credit score needed for a loan?">> ELSE << >>)

\* The fixed pool of generic questions.
GenericPool ==
    <<"What are the requirements for large loans?",
      "How are customer data and fraud prevention related?",
      "What security measures are required for customer data?",
      "What happens when a transaction appears suspicious?",
      "How often are security audits conducted?">>

\* C23: a call of get_example_questions returns the topic questions whose
\* condition holds in the store, in the order policy overview, $10,000
\* verification, 30-day deletion, 700 credit score, followed by the first 5 - k
\* generic questions of the pool: 5 pairwise distinct questions, a list fixed by
\* the store's contents; the call leaves the store as it was.
C23_ExampleQuestions ==
    [][result'.op = "get_example_questions"
          => /\ kg' = kg
             /\ Len(result'.value) = 5
             /\ \A i, j \in 1..5 : result'.value[i] = result'.value[j] => i = j
             /\ result'.value =
                   ExpectedTopics \o SubSeq(GenericPool, 1, 5 - Len(ExpectedTopics))]_vars

\* The call was made on a store where two topic conditions hold and two fail:
\* two topic questions and the first three generic questions came back.
C23_Witness ==
    /\ result.op = "get_example_questions"
    /\ Len(ExpectedTopics) = 2
    /\ Holds("TimePeriod", <<"3","0"," ","D","a","y">>)
    /\ ~ Holds("TimePeriod", <<"3","0"," ","d","a","y">>)
    /\ result.value[3] = GenericPool[1]
    /\ result.value[5] = GenericPool[3]

(***************************************************************************)
(* The claim about the id index.                                           *)
(***************************************************************************)

\* The ids the entity sequence holds, and the ids the index holds.
KnownIds == {entities[i].id : i \in 1..Len(entities)} \cup DOMAIN entity_map

\* get_entity answers for an id exactly when the entity sequence holds the id,
\* and with an entity of that id.
Indexed(id) ==
    /\ (get_entity(kg, id) # None) <=> (\E i \in 1..Len(entities) : entities[i].id = id)
    /\ get_entity(kg, id) # None => get_entity(kg, id).id = id

\* C24: in every state the add calls, clear, process_document and load leave,
\* a load that aborted on a record without a required field included,
\* get_entity returns an entity for an id exactly when the entity sequence
\* holds an entity of that id, and the entity returned has that id.
C24_IndexConsistency == \A id \in KnownIds : Indexed(id)

(***************************************************************************)
(* The claim about the relationships of extraction.                        *)
(***************************************************************************)

\* get_entity resolves the source and the target of relationship i of store g.
Resolves(g, i) ==
    /\ get_entity(g, g.relationships[i].source) # None
    /\ get_entity(g, g.relationships[i].target) # None

\* No relationship of store g dangles.
NoDangling(g) == \A i \in 1..Len(g.relationships) : Resolves(g, i)

\* C25: the relationships a process_document call adds have a source and a
\* target that get_entity resolves, and a store without dangling relationships
\* before the call has none after it, under either strategy, whether the call
\* returns or is ended by an exception part of the way.
C25_ReferentialIntegrity ==
    [][result'.op = "process_document"
          => /\ \A i \in (Len(relationships) + 1)..Len(relationships') : Resolves(kg', i)
             /\ NoDangling(kg) => NoDangling(kg')]_vars

(***************************************************************************)
(* The claims about the similarity that query leaves on the chunks.        *)
(***************************************************************************)

\* A keyword of question q is part of the lower-cased text.
Matches(q, text) == \E k \in ClaimKeywords(q) : Contains(lower(text), k)

\* The frame of a query step: nothing but the similarity of the chunks with a
\* match changes.
QueryFrame ==
    /\ entities' = entities
    /\ relationships' = relationships
    /\ entity_map' = entity_map
    /\ Len(text_chunks') = Len(text_chunks)
    /\ \A i \in 1..Len(text_chunks) :
          /\ text_chunks'[i].id = text_chunks[i].id
          /\ text_chunks'[i].text = text_chunks[i].text
          /\ text_chunks'[i].metadata = text_chunks[i].metadata
          /\ ~ Matches(result'.query_text, text_chunks[i].text)
                => text_chunks'[i].similarity = text_chunks[i].similarity

\* The questions asked of the store that is saved and loaded.
AskedQuestions == {S_user_name}

\* The similarity is one a query gives a chunk of this text: hits / keywords,
\* above 0 and at most 1.
FromQuery(similarity, text) ==
    \E q \in AskedQuestions :
        /\ Hits(keywords_of(q), text) > 0
        /\ Hits(keywords_of(q), text) <= Len(keywords_of(q))
        /\ similarity[1] * Len(keywords_of(q)) = Hits(keywords_of(q), text) * similarity[2]

\* The similarity is the one a file on disk records for the chunk of this id.
FromFile(similarity, id) ==
    \E f \in DOMAIN files : \E j \in 1..Len(files[f].text_chunks) :
        /\ files[f].text_chunks[j].id = id
        /\ "similarity" \in DOMAIN files[f].text_chunks[j]
        /\ files[f].text_chunks[j].similarity = similarity

\* The similarity of every chunk is 0 or a value in (0, 1] that a query produces.
SimilaritiesFromQuery ==
    \A i \in 1..Len(text_chunks) :
        \/ text_chunks[i].similarity[1] = 0
        \/ FromQuery(text_chunks[i].similarity, text_chunks[i].text)

\* The similarity of every chunk is 0, a value in (0, 1] that a query produces,
\* or the value a file records for the chunk.
SimilaritiesFromQueryOrFile ==
    \A i \in 1..Len(text_chunks) :
        \/ text_chunks[i].similarity[1] = 0
        \/ FromQuery(text_chunks[i].similarity, text_chunks[i].text)
        \/ FromFile(text_chunks[i].similarity, text_chunks[i].id)

\* C26 as stated: a query step changes nothing but the similarity of the chunks
\* with a match, a chunk without a match keeps its similarity, and the
\* similarity of every chunk is 0 or a value in (0, 1] that a query produced.
C26_QueryFrame ==
    /\ [][result'.op = "query" => QueryFrame]_vars
    /\ []SimilaritiesFromQuery

\* C26 amended: the frame as stated; the similarity of every chunk is 0, a
\* value in (0, 1] that a query produced, or the value that a loaded file
\* records for the chunk, which no query need have produced.
C26_QueryFrameOrLoaded ==
    /\ [][result'.op = "query" => QueryFrame]_vars
    /\ []SimilaritiesFromQueryOrFile

\* A query has set the similarity of a chunk with a match and has left a chunk
\* without a match with the similarity, not 0, that a load gave it.
C26_Witness ==
    /\ result.op = "query"
    /\ \E i \in 1..Len(text_chunks) :
          /\ Matches(result.query_text, text_chunks[i].text)
          /\ FromQuery(text_chunks[i].similarity, text_chunks[i].text)
    /\ \E i \in 1..Len(text_chunks) :
          /\ ~ Matches(result.query_text, text_chunks[i].text)
          /\ text_chunks[i].similarity[1] # 0

(***************************************************************************)
(* The claim about the history of queries.                                 *)
(***************************************************************************)

\* The store with the similarity of every chunk back at 0: the store as it would
\* be had no query been made.
Unscored(g) ==
    [g EXCEPT !.text_chunks =
        [i \in 1..Len(g.text_chunks) |->
            [g.text_chunks[i] EXCEPT !.similarity = ZeroSimilarity]]]

\* C27: the result of a query (answer, entities, relationships, chunks with
\* their similarities and order) is the result the same question has on the
\* store with every similarity at 0: it is fixed by the question and by the
\* entities, relationships and chunk texts and metadata, whatever similarities
\* earlier queries have left.
C27_HistoryIndependence ==
    [][result'.op = "query"
          => result'.value = query(Unscored(kg), result'.query_text).value]_vars

\* A query has found no chunk in a store whose chunks hold the similarities an
\* earlier query left on them: its answer is not made of chunk text.
C27_Witness ==
    /\ result.op = "query"
    /\ Len(result.value.chunks) = 0
    /\ Len(text_chunks) = MaxJoined
    /\ \A i \in 1..Len(text_chunks) : text_chunks[i].similarity[1] > 0
    /\ result.value.answer.kind \notin {"top_chunk", "two_chunks"}
====
